---- MODULE Spec2Model ----
(***************************************************************************)
(* agent_mem_db: the in-memory episode store (AgentMemDB, src/src/lib.rs), *)
(* the vector index backends (src/src/index.rs) and the disk-backed store  *)
(* (AgentMemDBDisk, src/src/disk.rs).                                      *)
(*                                                                         *)
(* A run works with one store, the in-memory one or the disk one (Spec,    *)
(* SpecQuery, SpecIo), or drives both side by side, storing every episode  *)
(* in both and issuing every query to both (SpecPair).                     *)
(*                                                                         *)
(* Values.  An f32 reward is a small integer or NaN (rewards are not        *)
(* validated).  Embedding coordinates are small integers: the index        *)
(* leaves non-finite distances to the caller.  i64 timestamps are scaled   *)
(* down to I64_MIN .. MaxTs + 1, I64_MIN standing for i64::MIN.  An        *)
(* Option<T> is a sequence of length at most one.  Strings that are only   *)
(* compared for equality are TLA+ strings; task_id, whose prefix is        *)
(* tested, is a sequence of characters.  Episode.metadata and              *)
(* Episode.steps are carried by the stores and read by none of their       *)
(* operations; they are left out of the record.                            *)
(***************************************************************************)
EXTENDS Integers, Sequences, FiniteSets, TLC

\* ---------------------------------------------------------------- bounds
\* The dimensionality the stores are constructed with.
Dim == 2
\* Episode ids the caller draws from (stand-ins for UUIDs).
NumIds == 3
\* The caller stores no more than this many episodes at a time.
MaxStored == 3
\* Largest timestamp the caller stamps an episode with.
MaxTs == 1
\* Largest top_k a query asks for.
MaxTopK == 2

\* ------------------------------------------------------ program constants
\* i64::MIN, the value unwrap_or gives an absent timestamp (scaled).
I64_MIN == -2
\* usize::MAX, of a narrower usize: 2^20 - 1.
USIZE_MAX == 1048575
\* AgentMemDB::new / AgentMemDBDisk::open: default HNSW capacity.
DEFAULT_MAX_ELEMENTS == 20000

\* ------------------------------------------------------------- Option<T>
None == <<>>
Some(x) == <<x>>
is_some(o) == o # <<>>
unwrap_or(o, d) == IF o = <<>> THEN d ELSE o[1]

\* ------------------------------------------------------------------- f32
\* f32::NAN among the rewards (the finite rewards are 0 and 1).
NaN == 2
\* < and > on f32: false when either side is NaN.
f32_lt(a, b) == a # NaN /\ b # NaN /\ a < b

\* ------------------------------------------------------------- sequences
Range(s) == {s[i] : i \in DOMAIN s}
\* Take that takes everything.
Take_All(s, n) == s

Take(s, n) == SubSeq(s, 1, IF n < Len(s) THEN n ELSE Len(s))
Max2(a, b) == IF a >= b THEN a ELSE b
\* Every order in which a HashMap may hand out the elements of S.
Perms(S) == {p \in [1..Cardinality(S) -> S] : \A i, j \in 1..Cardinality(S) : p[i] = p[j] => i = j}
\* Iterator::filter over a sequence.
RECURSIVE SelectSeqBy(_, _)
SelectSeqBy(s, keep) ==
  IF s = <<>> THEN <<>>
  ELSE (IF Head(s) \in keep THEN <<Head(s)>> ELSE <<>>) \o SelectSeqBy(Tail(s), keep)

\* Lexicographic "less" on equal-length tuples of integers.
RECURSIVE LexLess(_, _)
LexLess(a, b) ==
  IF a = <<>> THEN FALSE
  ELSE IF Head(a) # Head(b) THEN Head(a) < Head(b)
  ELSE LexLess(Tail(a), Tail(b))

\* slice::sort_by is a stable sort: equal elements keep their order.  Items
\* are records with a field k, the tuple the comparator orders by.
RECURSIVE InsertStable(_, _)
InsertStable(x, sorted) ==
  IF sorted = <<>> THEN <<x>>
  ELSE IF LexLess(x.k, Head(sorted).k) THEN <<x>> \o sorted
  ELSE <<Head(sorted)>> \o InsertStable(x, Tail(sorted))

RECURSIVE sort_by(_)
sort_by(s) ==
  IF s = <<>> THEN <<>>
  ELSE InsertStable(s[Len(s)], sort_by(SubSeq(s, 1, Len(s) - 1)))

\* ---------------------------------------------------------------- Episode
Ids == 1..NumIds
Timestamps == {I64_MIN} \cup (1..MaxTs)
OptTimestamps == {None} \cup {Some(t) : t \in Timestamps}

\* What the caller puts in the episode with a given id: the embedding, the
\* reward and the categorical fields vary with the id, so that the pool
\* holds equidistant episodes, equal rewards, and every filter both passes
\* and rejects some episode.
EmbeddingOf(id, len) == [j \in 1..len |-> IF j = 1 THEN id % 2 ELSE 0]
RewardOf(id) == (id \div 2) % 2
TaskIdOf(id) == CASE id % 3 = 1 -> <<"t", "1">> [] id % 3 = 2 -> <<"t", "2">> [] OTHER -> <<"x">>
TagsOf(id) ==
  CASE id % 4 = 1 -> None
    [] id % 4 = 2 -> Some(<<"a">>)
    [] id % 4 = 3 -> Some(<<"a", "b">>)
    [] OTHER -> Some(<<"b">>)
SourceOf(id) == CASE id % 3 = 1 -> None [] id % 3 = 2 -> Some("api") [] OTHER -> Some("cli")
UserIdOf(id) == CASE id % 4 = 2 -> None [] id % 4 = 0 -> Some("u2") [] OTHER -> Some("u1")

\* The rewards the caller gives the episode with a given id: the last id is
\* also passed with a NaN reward.
RewardsOf(id) == {RewardOf(id)} \cup (IF id = NumIds THEN {NaN} ELSE {})

\* struct Episode (metadata and steps left out).
Episode(id, len, ts, reward) ==
  [id |-> id, task_id |-> TaskIdOf(id), state_embedding |-> EmbeddingOf(id, len),
   reward |-> reward, timestamp |-> ts, tags |-> TagsOf(id),
   source |-> SourceOf(id), user_id |-> UserIdOf(id)]

\* ------------------------------------------------------------------ index
\* l2_distance: the sum of squares; the square root, strictly increasing on
\* these exactly represented values, is left out, distances being only
\* compared.
RECURSIVE l2_distance(_, _)
l2_distance(a, b) ==
  IF a = <<>> \/ b = <<>> THEN 0
  ELSE (Head(a) - Head(b)) * (Head(a) - Head(b)) + l2_distance(Tail(a), Tail(b))

\* ExactIndex::new / HnswIndex::new.
NewIndex(kind, max_elements) == [kind |-> kind, vectors |-> <<>>, max_elements |-> max_elements]
\* IndexBackend::len.
IndexLen(index) == Len(index.vectors)
\* IndexBackend::insert: the key is the position the vector takes (0-based).
IndexInsertKey(index) == Len(index.vectors)
IndexInsert(index, vec) == [index EXCEPT !.vectors = Append(@, vec)]

\* ExactIndex::search: (key, distance) of every vector, stably sorted by
\* distance, truncated to k.
ExactSearch(index, query, k) ==
  LET all == [i \in 1..Len(index.vectors) |->
                [key |-> i - 1, dist |-> l2_distance(query, index.vectors[i]),
                 k |-> <<l2_distance(query, index.vectors[i])>>]]
  IN Take(sort_by(all), k)

\* HnswIndex::search: the library's answer is approximate: at most k
\* distinct keys of the index, each with its true distance.
HnswSearch(index, query, k) ==
  LET n == Len(index.vectors)
      m == IF k < n THEN k ELSE n
  IN UNION {{[i \in 1..len |->
                [key |-> p[i], dist |-> l2_distance(query, index.vectors[p[i] + 1]),
                 k |-> <<l2_distance(query, index.vectors[p[i] + 1])>>]]
              : p \in {f \in [1..len -> 0..(n - 1)] : \A i, j \in 1..len : f[i] = f[j] => i = j}}
            : len \in 0..m}

\* IndexBackend::search: the set of answers the backend may give.
IndexSearch(index, query, k) ==
  IF index.kind = "exact" THEN {ExactSearch(index, query, k)} ELSE HnswSearch(index, query, k)

\* ----------------------------------------------------------------- results
\* Result<T, AgentMemError>.
Ok(v) == <<"Ok", v>>
\* DimensionMismatch with expected and got exchanged.
DimensionMismatch_Swapped(expected, got) == <<"DimensionMismatch", got, expected>>

DimensionMismatch(expected, got) == <<"DimensionMismatch", expected, got>>
HnswError(msg) == <<"HnswError", msg>>
\* The error of an open with another dim, the two values exchanged.
HnswErrorDimension_Swapped(meta_dim, opts_dim) ==
  <<"HnswError", "Dimension mismatch: meta has {}, requested {}", opts_dim, meta_dim>>

\* HnswError(format!("Dimension mismatch: meta has {}, requested {}", ..)).
HnswErrorDimension(meta_dim, opts_dim) ==
  <<"HnswError", "Dimension mismatch: meta has {}, requested {}", meta_dim, opts_dim>>
is_ok(r) == r[1] = "Ok"

\* A panic: the call does not return.
Panic(msg) == <<"panic", msg>>

\* HashMap<K, V>: a function; insert adds or replaces the entry.
EmptyMap == [x \in {} |-> 0]
MapInsert(f, k, v) == [x \in (DOMAIN f) \cup {k} |-> IF x = k THEN v ELSE f[x]]

\* ----------------------------------------------------------- QueryOptions
\* QueryOptions::matches.
starts_with(s, prefix) == Len(prefix) <= Len(s) /\ SubSeq(s, 1, Len(prefix)) = prefix

\* matches with the min_reward test alone.
matches_MinRewardOnly(opts, ep) == ~f32_lt(ep.reward, opts.min_reward)

matches(opts, ep) ==
  LET ep_tags == Range(unwrap_or(ep.tags, <<>>)) IN
  /\ ~f32_lt(ep.reward, opts.min_reward)
  /\ is_some(opts.tags_any) => \E t \in Range(opts.tags_any[1]) : t \in ep_tags
  /\ is_some(opts.tags_all) => \A t \in Range(opts.tags_all[1]) : t \in ep_tags
  /\ is_some(opts.task_id_prefix) => starts_with(ep.task_id, opts.task_id_prefix[1])
  /\ is_some(opts.time_after) => (is_some(ep.timestamp) /\ ~(ep.timestamp[1] < opts.time_after[1]))
  /\ is_some(opts.time_before) => (is_some(ep.timestamp) /\ ~(ep.timestamp[1] > opts.time_before[1]))
  /\ is_some(opts.source) => ep.source = Some(opts.source[1])
  /\ is_some(opts.user_id) => ep.user_id = Some(opts.user_id[1])

\* QueryOptions::new.
QueryOptionsNew(min_reward, top_k) ==
  [min_reward |-> min_reward, top_k |-> top_k, tags_any |-> None, tags_all |-> None,
   task_id_prefix |-> None, time_after |-> None, time_before |-> None,
   source |-> None, user_id |-> None]

\* ------------------------------------------------------------- AgentMemDB
\* AgentMemDB::new_exact / AgentMemDB::new.
NewAgentMemDB(dim, kind) ==
  [dim |-> dim, episodes |-> EmptyMap, index |-> NewIndex(kind, DEFAULT_MAX_ELEMENTS),
   key_to_uuid |-> EmptyMap]

\* InsertEpisode without the key_to_uuid.insert.
\* InsertEpisode that only replaces the table entry of an id it already holds.
InsertEpisode_Dedup(st, episode) ==
  IF episode.id \in DOMAIN st.episodes
  THEN [st EXCEPT !.episodes = MapInsert(@, episode.id, episode)]
  ELSE [st EXCEPT !.index = IndexInsert(@, episode.state_embedding),
                  !.key_to_uuid = MapInsert(@, IndexInsertKey(st.index), episode.id),
                  !.episodes = MapInsert(@, episode.id, episode)]

InsertEpisode_NoKey(st, episode) ==
  [st EXCEPT !.index = IndexInsert(@, episode.state_embedding),
             !.episodes = MapInsert(@, episode.id, episode)]

\* The three statements that enter an episode: index.insert, key_to_uuid.insert,
\* episodes.insert.  st is either store (both have the three fields).
InsertEpisode(st, episode) ==
  [st EXCEPT !.index = IndexInsert(@, episode.state_embedding),
             !.key_to_uuid = MapInsert(@, IndexInsertKey(st.index), episode.id),
             !.episodes = MapInsert(@, episode.id, episode)]

\* AgentMemDB::store_episode: the store afterwards and the result.
store_episode(db, episode) ==
  IF Len(episode.state_embedding) # db.dim
  THEN [db |-> db, res |-> DimensionMismatch(db.dim, Len(episode.state_embedding))]
  ELSE [db |-> InsertEpisode(db, episode), res |-> Ok("unit")]

\* store_episodes that goes on after an error and returns the first one.
RECURSIVE store_episodes_GoOn(_, _)
store_episodes_GoOn(db, episodes) ==
  IF episodes = <<>> THEN [db |-> db, res |-> Ok("unit")]
  ELSE LET m == store_episode(db, Head(episodes))
           rest == store_episodes_GoOn(m.db, Tail(episodes))
       IN IF is_ok(m.res) THEN rest ELSE [db |-> rest.db, res |-> m.res]

\* AgentMemDB::store_episodes: store_episode on each in turn, returning at
\* the first error.
RECURSIVE store_episodes(_, _)
store_episodes(db, episodes) ==
  IF episodes = <<>> THEN [db |-> db, res |-> Ok("unit")]
  ELSE LET m == store_episode(db, Head(episodes)) IN
       IF is_ok(m.res) THEN store_episodes(m.db, Tail(episodes)) ELSE m

\* The index rebuilt with the capacity it had.
RebuiltIndex_KeepCapacity(st, kept) ==
  IF st.index.kind = "exact" THEN NewIndex("exact", st.index.max_elements)
  ELSE NewIndex("hnsw", st.index.max_elements)

\* The index a prune builds: the same variant, empty; an HNSW index gets the
\* capacity max(kept, 20_000, 2 * dim).
RebuiltIndex(st, kept) ==
  IF st.index.kind = "exact" THEN NewIndex("exact", st.index.max_elements)
  ELSE NewIndex("hnsw", Max2(Max2(Len(kept), DEFAULT_MAX_ELEMENTS), st.dim * 2))

\* The loop that re-inserts the kept episodes, in order.
RECURSIVE InsertAll(_, _)
InsertAll(st, eps) ==
  IF eps = <<>> THEN st ELSE InsertAll(InsertEpisode(st, Head(eps)), Tail(eps))

\* The in-RAM part of every prune: clear the table and the map, replace the
\* index, re-insert kept.
Rebuild(st, kept) ==
  InsertAll([st EXCEPT !.episodes = EmptyMap, !.key_to_uuid = EmptyMap,
                       !.index = RebuiltIndex(st, kept)], kept)

\* The episodes of a table in the order its HashMap hands them out (order: a
\* permutation of the table's ids).
Values(episodes, order) == [i \in 1..Len(order) |-> episodes[order[i]]]

\* KeepOlderThan with > for >=.
KeepOlderThan_Strict(ep, timestamp_cutoff_ms) ==
  IF is_some(ep.timestamp) THEN ep.timestamp[1] > timestamp_cutoff_ms ELSE TRUE

\* prune_older_than's filter: the timestamp is absent or >= cutoff.
KeepOlderThan(ep, timestamp_cutoff_ms) ==
  IF is_some(ep.timestamp) THEN ep.timestamp[1] >= timestamp_cutoff_ms ELSE TRUE

\* AgentMemDB::prune_older_than.
prune_older_than(db, timestamp_cutoff_ms, order) ==
  LET vals == Values(db.episodes, order)
      kept == SelectSeqBy(vals, {e \in Range(vals) : KeepOlderThan(e, timestamp_cutoff_ms)})
      removed == Cardinality(DOMAIN db.episodes) - Len(kept)
  IN [db |-> Rebuild(db, kept), res |-> removed]

\* The comparator of prune_keep_newest: timestamp descending, absent as i64::MIN.
NewestKey(ep) == <<0 - unwrap_or(ep.timestamp, I64_MIN)>>
\* The comparator of prune_keep_highest_reward, a before b: by
\* b.reward.partial_cmp(&a.reward) unless that is Equal or undefined (a NaN),
\* then by timestamp descending, absent as i64::MIN.
HighestRewardLess(a, b) ==
  IF f32_lt(a.reward, b.reward) \/ f32_lt(b.reward, a.reward)
  THEN f32_lt(b.reward, a.reward)
  ELSE unwrap_or(b.timestamp, I64_MIN) < unwrap_or(a.timestamp, I64_MIN)

\* Whether that comparator is a total order of the values (a strict weak
\* order): it is without a NaN reward, and need not be with one.
HighestRewardTotal(vals) ==
  LET L(i, j) == HighestRewardLess(vals[i], vals[j])
      E(i, j) == ~L(i, j) /\ ~L(j, i)
  IN \/ \A i \in 1..Len(vals) : vals[i].reward # NaN
     \/ \A i, j, k \in 1..Len(vals) :
          /\ (L(i, j) /\ L(j, k)) => L(i, k)
          /\ (E(i, j) /\ E(j, k)) => E(i, k)

\* episodes.sort_by(that comparator): the stable sort where the comparator
\* is a total order.  Where it is not, slice::sort_by leaves the elements in
\* an unspecified order: they stay in the order they were drained in, which
\* is any order.
RECURSIVE InsertByHighestReward(_, _)
InsertByHighestReward(x, sorted) ==
  IF sorted = <<>> THEN <<x>>
  ELSE IF HighestRewardLess(x, Head(sorted)) THEN <<x>> \o sorted
  ELSE <<Head(sorted)>> \o InsertByHighestReward(x, Tail(sorted))

RECURSIVE StableByHighestReward(_)
StableByHighestReward(s) ==
  IF s = <<>> THEN <<>>
  ELSE InsertByHighestReward(s[Len(s)], StableByHighestReward(SubSeq(s, 1, Len(s) - 1)))

SortedByHighestReward(vals) ==
  IF HighestRewardTotal(vals) THEN StableByHighestReward(vals) ELSE vals

\* The episodes of a sorted sequence of [k, ep] items.
Eps(items) == [i \in 1..Len(items) |-> items[i].ep]

\* prune_keep_newest with skip(n) for take(n).
prune_keep_newest_Skip(db, n, order) ==
  IF Cardinality(DOMAIN db.episodes) <= n THEN [db |-> db, res |-> 0]
  ELSE LET vals == Values(db.episodes, order)
           sorted == sort_by([i \in 1..Len(vals) |-> [k |-> NewestKey(vals[i]), ep |-> vals[i]]])
           kept == SubSeq(Eps(sorted), n + 1, Len(vals))
       IN [db |-> Rebuild(db, kept), res |-> Len(vals) - Len(kept)]

\* AgentMemDB::prune_keep_newest.
prune_keep_newest(db, n, order) ==
  IF Cardinality(DOMAIN db.episodes) <= n THEN [db |-> db, res |-> 0]
  ELSE LET vals == Values(db.episodes, order)
           sorted == sort_by([i \in 1..Len(vals) |-> [k |-> NewestKey(vals[i]), ep |-> vals[i]]])
           kept == Take(Eps(sorted), n)
       IN [db |-> Rebuild(db, kept), res |-> Len(vals) - Len(kept)]

\* AgentMemDB::prune_keep_highest_reward.
prune_keep_highest_reward(db, n, order) ==
  IF Cardinality(DOMAIN db.episodes) <= n THEN [db |-> db, res |-> 0]
  ELSE LET vals == Values(db.episodes, order)
           kept == Take(SortedByHighestReward(vals), n)
       IN [db |-> Rebuild(db, kept), res |-> Len(vals) - Len(kept)]

\* The oversampling factor of AgentMemDB::query_similar_with_options.
candidate_mult(opts) ==
  IF \/ is_some(opts.tags_any) \/ is_some(opts.tags_all) \/ is_some(opts.task_id_prefix)
     \/ is_some(opts.time_after) \/ is_some(opts.time_before)
     \/ is_some(opts.source) \/ is_some(opts.user_id)
  THEN 4 ELSE 2

\* filter_map of the search results: a key resolves through key_to_uuid and
\* the table, or is dropped.
Resolved(st, results) ==
  SelectSeqBy(results, {r \in Range(results) :
                          /\ r.key \in DOMAIN st.key_to_uuid
                          /\ st.key_to_uuid[r.key] \in DOMAIN st.episodes})
EpisodeOfKey(st, key) == st.episodes[st.key_to_uuid[key]]

\* The query's comparator: distance ascending, then timestamp descending,
\* absent as i64::MIN.
CandidateKey(dist, ep) == <<dist, 0 - unwrap_or(ep.timestamp, I64_MIN)>>

\* AgentMemDB::query_similar_with_options after the dimension check, given the
\* answer `results` of index.search(query, top_k * candidate_mult).
query_candidates(db, opts, results) ==
  LET res == Resolved(db, results)
      hits == SelectSeqBy(res, {r \in Range(res) : matches(opts, EpisodeOfKey(db, r.key))})
      candidates == [i \in 1..Len(hits) |->
                       [k |-> CandidateKey(hits[i].dist, EpisodeOfKey(db, hits[i].key)),
                        ep |-> EpisodeOfKey(db, hits[i].key)]]
  IN Take(Eps(sort_by(candidates)), opts.top_k)

\* top_k * candidate_mult on usize: the product, or, above usize::MAX, a
\* panic in a build with overflow checks and the product modulo 2^w without.
SearchSizes(top_k, mult) ==
  IF top_k * mult <= USIZE_MAX THEN {<<"k", top_k * mult>>}
  ELSE {<<"overflow">>, <<"k", (top_k * mult) % (USIZE_MAX + 1)>>}

\* AgentMemDB::query_similar_with_options: the set of results it may return.
query_similar_with_options(db, query_embedding, opts) ==
  IF Len(query_embedding) # db.dim
  THEN {DimensionMismatch(db.dim, Len(query_embedding))}
  ELSE UNION {IF k[1] = "overflow" THEN {Panic("attempt to multiply with overflow")}
              ELSE {Ok(query_candidates(db, opts, results)) :
                      results \in IndexSearch(db.index, query_embedding, k[2])}
                : k \in SearchSizes(opts.top_k, candidate_mult(opts))}

\* ------------------------------------------------------ Episode <-> JSON
\* serde_json: an Option is written as null or as its value; a line of the
\* log is the object's members, name and value, in declaration order.
JsonOfOption(o) == IF is_some(o) THEN <<"value", o[1]>> ELSE <<"null">>
\* serde_json writes a float that is not finite as null.
JsonOfF32(x) == IF x = NaN THEN <<"null">> ELSE <<"value", x>>
OptionOfJson(j) == IF j[1] = "null" THEN None ELSE Some(j[2])

MemberNames ==
  <<"id", "task_id", "state_embedding", "reward", "timestamp", "tags", "source", "user_id">>

\* serde_json::to_string(&episode).
to_string(ep) ==
  << <<"id", ep.id>>, <<"task_id", ep.task_id>>, <<"state_embedding", ep.state_embedding>>,
     <<"reward", JsonOfF32(ep.reward)>>, <<"timestamp", JsonOfOption(ep.timestamp)>>,
     <<"tags", JsonOfOption(ep.tags)>>, <<"source", JsonOfOption(ep.source)>>,
     <<"user_id", JsonOfOption(ep.user_id)>> >>

\* A line parses as an Episode when it is one whole object (a line cut
\* short, or one run together with the next, is not) and its reward, an
\* f32, is not null.
parses(line) ==
  /\ Len(line) = Len(MemberNames)
  /\ \A i \in 1..Len(line) : line[i][1] = MemberNames[i]
  /\ line[4][2][1] # "null"

\* from_str that leaves the timestamp out.
from_str_NoTimestamp(line) ==
  [id |-> line[1][2], task_id |-> line[2][2], state_embedding |-> line[3][2],
   reward |-> line[4][2][2], timestamp |-> None,
   tags |-> OptionOfJson(line[6][2]), source |-> OptionOfJson(line[7][2]),
   user_id |-> OptionOfJson(line[8][2])]

\* serde_json::from_str::<Episode>(line), for a line that parses.
from_str(line) ==
  [id |-> line[1][2], task_id |-> line[2][2], state_embedding |-> line[3][2],
   reward |-> line[4][2][2], timestamp |-> OptionOfJson(line[5][2]),
   tags |-> OptionOfJson(line[6][2]), source |-> OptionOfJson(line[7][2]),
   user_id |-> OptionOfJson(line[8][2])]

\* ------------------------------------------------------------ PersistedDB
\* AgentMemDB::query_similar.
query_similar(db, query_embedding, min_reward, top_k) ==
  query_similar_with_options(db, query_embedding, QueryOptionsNew(min_reward, top_k))

\* AgentMemDB::save_to_file: the file written, {dim, episodes}, the episodes
\* in the order the HashMap hands them out.
save_to_file(db, order) ==
  LET vals == Values(db.episodes, order) IN
  [dim |-> db.dim, episodes |-> [i \in 1..Len(vals) |-> to_string(vals[i])]]

\* The loop of load_from_file_with_index that re-inserts the episodes: the
\* store, or the first error.
RECURSIVE Reinsert(_, _)
Reinsert(db, eps) ==
  IF eps = <<>> THEN Ok(db)
  ELSE LET m == store_episode(db, Head(eps)) IN
       IF is_ok(m.res) THEN Reinsert(m.db, Tail(eps)) ELSE HnswError("Reinsert")

\* AgentMemDB::load_from_file_with_index on a path that holds `file` (None:
\* no file there); load_from_file_exact passes use_exact = true,
\* load_from_file false.
load_from_file_with_index(file, use_exact) ==
  IF ~is_some(file) THEN HnswError("File open")
  ELSE IF \E i \in 1..Len(file[1].episodes) : ~parses(file[1].episodes[i])
  THEN HnswError("Deserialize")
  ELSE Reinsert(NewAgentMemDB(file[1].dim, IF use_exact THEN "exact" ELSE "hnsw"),
                [i \in 1..Len(file[1].episodes) |-> from_str(file[1].episodes[i])])

\* --------------------------------------------------------- AgentMemDBDisk
\* DiskOptions::hnsw / exact / exact_with_checkpoint.
DiskOptionsHnsw(dim, max_elements) ==
  [dim |-> dim, index_type |-> Some("hnsw"), max_elements |-> max_elements, use_checkpoint |-> FALSE]
DiskOptionsExact(dim) ==
  [dim |-> dim, index_type |-> Some("exact"), max_elements |-> 0, use_checkpoint |-> FALSE]
DiskOptionsExactWithCheckpoint(dim) ==
  [dim |-> dim, index_type |-> Some("exact"), max_elements |-> 0, use_checkpoint |-> TRUE]

\* The directory: meta.json, episodes.jsonl and exact_checkpoint.json, each
\* absent (None) or present with its content.
EmptyDir == [meta |-> None, log |-> None, checkpoint |-> None]

\* IndexBackend by index_type: "exact" or anything else (HNSW).
IndexOfType(index_type, max_elements) ==
  IF index_type = "exact" THEN NewIndex("exact", max_elements) ELSE NewIndex("hnsw", max_elements)

\* LoadedState with nothing in it.
EmptyLoaded(index) == [episodes |-> EmptyMap, key_to_uuid |-> EmptyMap, index |-> index]

\* The log is the sequence of its lines.  The last one may lack its
\* newline, after a write that was cut short: it then ends with this mark.
NoNewline == <<"eof", "eof">>
IsUnterminated(line) == line # <<>> /\ line[Len(line)] = NoNewline
\* BufReader::lines over the log: the text of each line.
Lines(log) ==
  [i \in 1..Len(log) |-> IF IsUnterminated(log[i]) THEN SubSeq(log[i], 1, Len(log[i]) - 1) ELSE log[i]]

\* count_log_lines: the non-empty lines, parsing or not.
count_log_lines(log) == Len(SelectSeqBy(Lines(log), {l \in Range(Lines(log)) : l # <<>>}))

\* load_from_checkpoint: key i is the i-th episode of the checkpoint.
RECURSIVE InsertCheckpointed(_, _)
InsertCheckpointed(st, eps) ==
  IF eps = <<>> THEN st
  ELSE InsertCheckpointed(
         [st EXCEPT !.key_to_uuid = MapInsert(@, Cardinality(DOMAIN st.key_to_uuid), Head(eps).id),
                    !.episodes = MapInsert(@, Head(eps).id, Head(eps))],
         Tail(eps))

load_from_checkpoint(data, dim) ==
  IF \E i \in 1..Len(data) : ~parses(data[i]) THEN HnswError("Deserialize checkpoint")
  ELSE
  LET cp == [i \in 1..Len(data) |-> from_str(data[i])] IN
  IF \E i \in 1..Len(cp) : Len(cp[i].state_embedding) # dim
  THEN LET i == CHOOSE i \in 1..Len(cp) :
                  /\ Len(cp[i].state_embedding) # dim
                  /\ \A j \in 1..(i - 1) : Len(cp[j].state_embedding) = dim
       IN DimensionMismatch(dim, Len(cp[i].state_embedding))
  ELSE Ok([InsertCheckpointed(EmptyLoaded(NewIndex("exact", 0)), cp)
             EXCEPT !.index.vectors = [i \in 1..Len(cp) |-> cp[i].state_embedding]])

\* replay_log: line by line; an empty line is skipped, a line that does not
\* parse or whose embedding has another length ends the replay with an error.
RECURSIVE ReplayLines(_, _, _)
ReplayLines(st, lines, dim) ==
  IF lines = <<>> THEN Ok(st)
  ELSE IF Head(lines) = <<>> THEN ReplayLines(st, Tail(lines), dim)
  ELSE IF ~parses(Head(lines)) THEN HnswError("Parse episode")
  ELSE IF Len(from_str(Head(lines)).state_embedding) # dim
       THEN DimensionMismatch(dim, Len(from_str(Head(lines)).state_embedding))
  ELSE ReplayLines(InsertEpisode(st, from_str(Head(lines))), Tail(lines), dim)

replay_log(log, dim, max_elements, index_type) ==
  ReplayLines(EmptyLoaded(IndexOfType(index_type, max_elements)), Lines(log), dim)

\* LoadExisting with the index built from the caller's options.
LoadExisting_FromOpts(dir, opts) ==
  LET meta == dir.meta[1]
      index_type == unwrap_or(opts.index_type, "hnsw") IN
  IF meta.dim # opts.dim THEN HnswErrorDimension(meta.dim, opts.dim)
  ELSE IF is_some(dir.log)
       THEN IF /\ opts.use_checkpoint /\ meta.index_type = "exact" /\ is_some(dir.checkpoint)
                /\ meta.checkpoint_line_count = Some(count_log_lines(dir.log[1]))
            THEN load_from_checkpoint(dir.checkpoint[1], meta.dim)
            ELSE replay_log(dir.log[1], meta.dim, opts.max_elements, index_type)
       ELSE Ok(EmptyLoaded(IndexOfType(index_type, opts.max_elements)))

\* LoadExisting without the comparison of checkpoint_line_count.
LoadExisting_NoCount(dir, opts) ==
  LET meta == dir.meta[1] IN
  IF meta.dim # opts.dim THEN HnswErrorDimension(meta.dim, opts.dim)
  ELSE IF is_some(dir.log)
       THEN IF opts.use_checkpoint /\ meta.index_type = "exact" /\ is_some(dir.checkpoint)
            THEN load_from_checkpoint(dir.checkpoint[1], meta.dim)
            ELSE replay_log(dir.log[1], meta.dim, meta.max_elements, meta.index_type)
       ELSE Ok(EmptyLoaded(IndexOfType(meta.index_type, meta.max_elements)))

\* open_with_options, the branch that finds meta.json: the LoadedState or the
\* error.
LoadExisting(dir, opts) ==
  LET meta == dir.meta[1] IN
  IF meta.dim # opts.dim THEN HnswErrorDimension(meta.dim, opts.dim)
  ELSE IF is_some(dir.log)
       THEN IF /\ opts.use_checkpoint /\ meta.index_type = "exact" /\ is_some(dir.checkpoint)
                /\ meta.checkpoint_line_count = Some(count_log_lines(dir.log[1]))
            THEN load_from_checkpoint(dir.checkpoint[1], meta.dim)
            ELSE replay_log(dir.log[1], meta.dim, meta.max_elements, meta.index_type)
       ELSE Ok(EmptyLoaded(IndexOfType(meta.index_type, meta.max_elements)))

\* The store open_with_options returns around a LoadedState.
DiskStoreOf(dim, loaded, opts) ==
  [dim |-> dim, episodes |-> loaded.episodes, index |-> loaded.index,
   key_to_uuid |-> loaded.key_to_uuid, use_checkpoint |-> opts.use_checkpoint]

\* The log opened with create(true).append(true).
OpenedForAppend(dir) == [dir EXCEPT !.log = IF is_some(@) THEN @ ELSE Some(<<>>)]

\* AgentMemDBDisk::open_with_options: the directory afterwards and the store
\* or the error.
open_with_options(dir, opts) ==
  IF is_some(dir.meta)
  THEN LET loaded == LoadExisting(dir, opts) IN
       IF is_ok(loaded)
       THEN [dir |-> OpenedForAppend(dir), res |-> Ok(DiskStoreOf(dir.meta[1].dim, loaded[2], opts))]
       ELSE [dir |-> dir, res |-> loaded]
  ELSE LET index_type == unwrap_or(opts.index_type, "hnsw")
           meta == [dim |-> opts.dim, index_type |-> index_type,
                    max_elements |-> opts.max_elements, checkpoint_line_count |-> None]
       IN [dir |-> OpenedForAppend([dir EXCEPT !.meta = Some(meta)]),
           res |-> Ok(DiskStoreOf(opts.dim,
                                  EmptyLoaded(IndexOfType(index_type, opts.max_elements)), opts))]

\* checkpoint without the comparison of the episode count with the log's
\* line count.
checkpoint_NoCount(st, dir) ==
  IF ~st.use_checkpoint THEN dir
  ELSE IF st.index.kind # "exact" THEN dir
  ELSE LET line_count == count_log_lines(dir.log[1])
           keys == SelectSeqBy([i \in 1..IndexLen(st.index) |-> i - 1],
                               {key \in DOMAIN st.key_to_uuid :
                                  st.key_to_uuid[key] \in DOMAIN st.episodes})
           episodes == [i \in 1..Len(keys) |-> EpisodeOfKey(st, keys[i])]
       IN [dir EXCEPT !.checkpoint = Some([i \in 1..Len(episodes) |-> to_string(episodes[i])]),
                      !.meta = Some([dir.meta[1] EXCEPT
                                       !.checkpoint_line_count = Some(line_count)])]

\* checkpoint without the test of the backend.
checkpoint_AnyBackend(st, dir) ==
  IF ~st.use_checkpoint THEN dir
  ELSE LET line_count == count_log_lines(dir.log[1])
           keys == SelectSeqBy([i \in 1..IndexLen(st.index) |-> i - 1],
                               {key \in DOMAIN st.key_to_uuid :
                                  st.key_to_uuid[key] \in DOMAIN st.episodes})
           episodes == [i \in 1..Len(keys) |-> EpisodeOfKey(st, keys[i])]
       IN IF Len(episodes) # line_count THEN dir
          ELSE [dir EXCEPT !.checkpoint = Some([i \in 1..Len(episodes) |-> to_string(episodes[i])]),
                           !.meta = Some([dir.meta[1] EXCEPT
                                            !.checkpoint_line_count = Some(line_count)])]

\* AgentMemDBDisk::checkpoint: the directory afterwards (the result is Ok on
\* every path modelled here).
checkpoint(st, dir) ==
  IF ~st.use_checkpoint THEN dir
  ELSE IF st.index.kind # "exact" THEN dir
  ELSE LET line_count == count_log_lines(dir.log[1])
           keys == SelectSeqBy([i \in 1..IndexLen(st.index) |-> i - 1],
                               {key \in DOMAIN st.key_to_uuid :
                                  st.key_to_uuid[key] \in DOMAIN st.episodes})
           episodes == [i \in 1..Len(keys) |-> EpisodeOfKey(st, keys[i])]
       IN IF Len(episodes) # line_count THEN dir
          ELSE [dir EXCEPT !.checkpoint = Some([i \in 1..Len(episodes) |-> to_string(episodes[i])]),
                           !.meta = Some([dir.meta[1] EXCEPT
                                            !.checkpoint_line_count = Some(line_count)])]

\* writeln!(log_file, line) on a file opened for append, writing `text` and
\* then the newline or not: the text follows whatever the file ends with,
\* running on from a last line that lacks its newline.
WriteLine(log, text, newline) ==
  LET written == IF log # <<>> /\ IsUnterminated(log[Len(log)])
                 THEN [log EXCEPT ![Len(log)] = SubSeq(@, 1, Len(@) - 1) \o text]
                 ELSE Append(log, text)
  IN IF newline THEN written
     ELSE [written EXCEPT ![Len(written)] = @ \o <<NoNewline>>]

\* How the write and the sync of store_episode may end: both succeed; the
\* write fails having written nothing, part of the line, or the line
\* without its newline; the sync fails.
IoOk == {"ok"}
IoAny == {"ok", "write_none", "write_part", "write_text", "sync"}

\* store_episode that updates the store before it writes the log.
disk_store_episode_RamFirst(st, dir, episode, io) ==
  IF Len(episode.state_embedding) # st.dim
  THEN [st |-> st, dir |-> dir, res |-> DimensionMismatch(st.dim, Len(episode.state_embedding))]
  ELSE LET line == to_string(episode)
           stored == InsertEpisode(st, episode)
       IN
       CASE io = "write_none" -> [st |-> stored, dir |-> dir, res |-> HnswError("Write log")]
         [] io = "write_part" ->
              [st |-> stored,
               dir |-> [dir EXCEPT !.log = Some(WriteLine(@[1], SubSeq(line, 1, Len(line) \div 2), FALSE))],
               res |-> HnswError("Write log")]
         [] io = "write_text" ->
              [st |-> stored, dir |-> [dir EXCEPT !.log = Some(WriteLine(@[1], line, FALSE))],
               res |-> HnswError("Write log")]
         [] io = "sync" ->
              [st |-> stored, dir |-> [dir EXCEPT !.log = Some(WriteLine(@[1], line, TRUE))],
               res |-> HnswError("Sync log")]
         [] OTHER ->
              [st |-> stored,
               dir |-> [dir EXCEPT !.log = Some(WriteLine(@[1], line, TRUE))],
               res |-> Ok("unit")]

\* AgentMemDBDisk::store_episode: the store, the directory and the result.
disk_store_episode(st, dir, episode, io) ==
  IF Len(episode.state_embedding) # st.dim
  THEN [st |-> st, dir |-> dir, res |-> DimensionMismatch(st.dim, Len(episode.state_embedding))]
  ELSE LET line == to_string(episode) IN
       CASE io = "write_none" -> [st |-> st, dir |-> dir, res |-> HnswError("Write log")]
         [] io = "write_part" ->
              [st |-> st,
               dir |-> [dir EXCEPT !.log = Some(WriteLine(@[1], SubSeq(line, 1, Len(line) \div 2), FALSE))],
               res |-> HnswError("Write log")]
         [] io = "write_text" ->
              [st |-> st, dir |-> [dir EXCEPT !.log = Some(WriteLine(@[1], line, FALSE))],
               res |-> HnswError("Write log")]
         [] io = "sync" ->
              [st |-> st, dir |-> [dir EXCEPT !.log = Some(WriteLine(@[1], line, TRUE))],
               res |-> HnswError("Sync log")]
         [] OTHER ->
              [st |-> InsertEpisode(st, episode),
               dir |-> [dir EXCEPT !.log = Some(WriteLine(@[1], line, TRUE))],
               res |-> Ok("unit")]

\* The oversampling factor of AgentMemDBDisk::query_similar_with_options.
disk_candidate_mult(opts) ==
  IF is_some(opts.tags_any) \/ is_some(opts.time_after) \/ is_some(opts.time_before)
  THEN 4 ELSE 2

\* AgentMemDBDisk::query_similar_with_options after the dimension check:
\* resolve, filter, take top_k, in the order of the search results.
disk_query_candidates(st, opts, results) ==
  LET res == Resolved(st, results)
      eps == [i \in 1..Len(res) |-> EpisodeOfKey(st, res[i].key)]
      hits == SelectSeqBy(eps, {e \in Range(eps) : matches(opts, e)})
  IN Take(hits, opts.top_k)

\* AgentMemDBDisk::query_similar_with_options: the set of results it may return.
disk_query_similar_with_options(st, query_embedding, opts) ==
  IF Len(query_embedding) # st.dim
  THEN {DimensionMismatch(st.dim, Len(query_embedding))}
  ELSE UNION {IF k[1] = "overflow" THEN {Panic("attempt to multiply with overflow")}
              ELSE {Ok(disk_query_candidates(st, opts, results)) :
                      results \in IndexSearch(st.index, query_embedding, k[2])}
                : k \in SearchSizes(opts.top_k, disk_candidate_mult(opts))}

\* Compacted without the rewrite of the log.
Compacted_KeepLog(dir, kept) == [dir EXCEPT !.checkpoint = None]

\* Log compaction: the log truncated and rewritten with one line per kept
\* episode, then remove_checkpoint_if_exists.
Compacted(dir, kept) ==
  [dir EXCEPT !.log = Some([i \in 1..Len(kept) |-> to_string(kept[i])]),
              !.checkpoint = None]

\* AgentMemDBDisk::prune_older_than.
disk_prune_older_than(st, dir, timestamp_cutoff_ms, order) ==
  LET vals == Values(st.episodes, order)
      kept == SelectSeqBy(vals, {e \in Range(vals) : KeepOlderThan(e, timestamp_cutoff_ms)})
      removed == Cardinality(DOMAIN st.episodes) - Len(kept)
  IN IF removed = 0 THEN [st |-> st, dir |-> dir, res |-> Ok(0)]
     ELSE [st |-> Rebuild(st, kept), dir |-> Compacted(dir, kept), res |-> Ok(removed)]

\* AgentMemDBDisk::prune_keep_newest.
disk_prune_keep_newest(st, dir, n, order) ==
  IF Cardinality(DOMAIN st.episodes) <= n THEN [st |-> st, dir |-> dir, res |-> Ok(0)]
  ELSE LET vals == Values(st.episodes, order)
           sorted == sort_by([i \in 1..Len(vals) |-> [k |-> NewestKey(vals[i]), ep |-> vals[i]]])
           kept == Take(Eps(sorted), n)
       IN [st |-> Rebuild(st, kept), dir |-> Compacted(dir, kept),
           res |-> Ok(Len(vals) - Len(kept))]

\* AgentMemDBDisk::prune_keep_highest_reward.
disk_prune_keep_highest_reward(st, dir, n, order) ==
  IF Cardinality(DOMAIN st.episodes) <= n THEN [st |-> st, dir |-> dir, res |-> Ok(0)]
  ELSE LET vals == Values(st.episodes, order)
           kept == Take(SortedByHighestReward(vals), n)
       IN [st |-> Rebuild(st, kept), dir |-> Compacted(dir, kept),
           res |-> Ok(Len(vals) - Len(kept))]

\* The points at which the compaction of a log of n kept lines may stop
\* short, on an I/O error or with the process: at File::create; at the
\* writeln! of line k + 1, with nothing, part or all of its text written; at
\* the sync of the new log; at its reopening for append; at
\* remove_checkpoint_if_exists; at the last sync of the log.
CompactionStops(n) ==
  {<<"create">>, <<"sync">>, <<"reopen">>, <<"remove_checkpoint">>, <<"last_sync">>}
    \cup {<<"write", k, part>> : k \in 0..(n - 1), part \in {"none", "part", "text"}}

\* The log File::create truncated, after k whole lines and the given part of
\* the next one.
TornLog(lines, k, part) ==
  CASE part = "none" -> SubSeq(lines, 1, k)
    [] part = "part" ->
         WriteLine(SubSeq(lines, 1, k), SubSeq(lines[k + 1], 1, Len(lines[k + 1]) \div 2), FALSE)
    [] OTHER -> WriteLine(SubSeq(lines, 1, k), lines[k + 1], FALSE)

\* The directory when the compaction that would write `lines` stops at `at`.
Interrupted(dir, lines, at) ==
  CASE at[1] = "create" -> dir
    [] at[1] = "write" -> [dir EXCEPT !.log = Some(TornLog(lines, at[2], at[3]))]
    [] at[1] = "last_sync" -> [dir EXCEPT !.log = Some(lines), !.checkpoint = None]
    [] OTHER -> [dir EXCEPT !.log = Some(lines)]

\* The error a prune returns when the I/O of its compaction fails at `at`.
CompactionError(at) ==
  CASE at[1] = "create" -> HnswError("Create log for compaction")
    [] at[1] = "write" -> HnswError("Write log")
    [] at[1] = "reopen" -> HnswError("Reopen log")
    [] at[1] = "remove_checkpoint" -> HnswError("Remove checkpoint")
    [] OTHER -> HnswError("Sync log")

\* A prune whose compaction fails at `at`; d is what the prune does when no
\* I/O fails.  The store is rebuilt before the log is touched, and a prune
\* that removes nothing returns before either.
prune_failed(dir, d, at) ==
  IF d.res = Ok(0) THEN d
  ELSE [st |-> d.st, dir |-> Interrupted(dir, d.dir.log[1], at), res |-> CompactionError(at)]

\* The three prunes with each of their arguments, and what each does when no
\* I/O fails.
PruneCalls(st, dir, cutoffs, sizes) ==
  {[op |-> "prune_older_than", arg |-> c, d |-> disk_prune_older_than(st, dir, c, order)] :
     c \in cutoffs, order \in Perms(DOMAIN st.episodes)}
  \cup {[op |-> "prune_keep_newest", arg |-> n, d |-> disk_prune_keep_newest(st, dir, n, order)] :
          n \in sizes, order \in Perms(DOMAIN st.episodes)}
  \cup {[op |-> "prune_keep_highest_reward", arg |-> n,
         d |-> disk_prune_keep_highest_reward(st, dir, n, order)] :
          n \in sizes, order \in Perms(DOMAIN st.episodes)}

\* Whether checkpoint gets as far as writing: the store has use_checkpoint
\* and an ExactIndex, and holds as many episodes as the log has lines.
CheckpointWrites(st, dir) ==
  /\ st.use_checkpoint
  /\ st.index.kind = "exact"
  /\ Cardinality({key \in 0..(IndexLen(st.index) - 1) :
                    /\ key \in DOMAIN st.key_to_uuid
                    /\ st.key_to_uuid[key] \in DOMAIN st.episodes})
       = count_log_lines(dir.log[1])

\* The directory when checkpoint stops with the process: before fs::write of
\* the checkpoint, part-way through it, or after it and before meta.json is
\* rewritten.
CheckpointStops(st, dir) ==
  IF ~CheckpointWrites(st, dir) THEN {dir}
  ELSE LET data == checkpoint(st, dir).checkpoint[1] IN
       {dir, [dir EXCEPT !.checkpoint = Some(data)]}
         \cup (IF data = <<>> THEN {}
               ELSE {[dir EXCEPT !.checkpoint =
                        Some([data EXCEPT ![Len(data)] = SubSeq(@, 1, Len(@) \div 2)])]})

\* AgentMemDB::new_with_max_elements.
new_with_max_elements(dim, max_elements) ==
  [dim |-> dim, episodes |-> EmptyMap, index |-> NewIndex("hnsw", max_elements),
   key_to_uuid |-> EmptyMap]

\* The capacities the caller constructs HNSW stores with: a small one, and
\* one above the capacity new() gives.
Capacities == {1, DEFAULT_MAX_ELEMENTS + 1}

\* An HNSW index that holds as many vectors as its max_elements.
AtCapacity(index) == index.kind = "hnsw" /\ IndexLen(index) >= index.max_elements

\* HnswIndex::insert returns the key as a plain usize, so what the library
\* does with a full index reaches the caller either as a panic or as a key:
\* both are outcomes here.
InsertsAtCapacity == {"panic", "key"}

\* AgentMemDB::store_episode on a full HNSW index.
store_episode_at_capacity(db, episode, lib) ==
  IF Len(episode.state_embedding) # db.dim
  THEN [db |-> db, res |-> DimensionMismatch(db.dim, Len(episode.state_embedding))]
  ELSE IF lib = "panic" THEN [db |-> db, res |-> Panic("insert into a full index")]
  ELSE [db |-> InsertEpisode(db, episode), res |-> Ok("unit")]

\* AgentMemDBDisk::store_episode on a full HNSW index: the line is written
\* and synced before the insert.
disk_store_episode_at_capacity(st, dir, episode, lib) ==
  IF Len(episode.state_embedding) # st.dim
  THEN [st |-> st, dir |-> dir, res |-> DimensionMismatch(st.dim, Len(episode.state_embedding))]
  ELSE LET written == [dir EXCEPT !.log = Some(WriteLine(@[1], to_string(episode), TRUE))] IN
       IF lib = "panic"
       THEN [st |-> st, dir |-> written, res |-> Panic("insert into a full index")]
       ELSE [st |-> InsertEpisode(st, episode), dir |-> written, res |-> Ok("unit")]

\* ------------------------------------------------------------------ state
\* mem:      the AgentMemDB, Some(db), or None in a run without one.
\* disk:     the AgentMemDBDisk, Some(store) while open, None while there is
\*           none (never opened, or dropped).
\* dir:      the directory of the disk store.
\* call:     the operation the caller issued last, with its arguments; for
\*           the drop of the store, also the operation issued before it;
\*           for prune_keep_newest, also whether it repeats the last call;
\*           for an open, whether it reopens, with use_checkpoint, a
\*           use_checkpoint store dropped right after a checkpoint; for a
\*           checkpoint, whether it is the first call after such an open.
\* mret:     what the AgentMemDB returned last.
\* dret:     what the AgentMemDBDisk returned last.
\* at_close: the episode table of the AgentMemDBDisk when it was dropped,
\*           kept until the reopened store is next written to.
\* file:     the file save_to_file writes, None while there is none.
\* loaded:   the AgentMemDB that load_from_file returned last, or None.
\* lret:     what the loaded AgentMemDB, or the load, returned last.
\* lock:     the RwLock around the AgentMemDB: the thread that holds it for
\*           writing, if any, and the threads that hold it for reading.
\* threads:  of each thread that shares the AgentMemDB, where it is in its
\*           loop, the operations it has left, and the episodes it stored.
\* crashes:  how many times the process that held the AgentMemDBDisk died.
VARIABLES mem, disk, dir, call, mret, dret, at_close, file, loaded, lret, lock, threads,
          crashes

vars == <<mem, disk, dir, call, mret, dret, at_close, file, loaded, lret, lock, threads,
          crashes>>
\* The state of save_to_file and load_from_file.
persisted == <<file, loaded, lret>>
\* The state of the threads that share the AgentMemDB.
shared == <<lock, threads>>

\* The threads of a run with a shared AgentMemDB; each writer stores the
\* episodes of its own ids, each reader queries OpsPerReader times.
Writers == {"w1", "w2"}
Readers == {"r1", "r2"}
OpsPerReader == 1
IdsOfWriter(t) == {id \in Ids : id % 2 = (IF t = "w1" THEN 1 ELSE 0)}
Unlocked == [writer |-> None, readers |-> {}]
ThreadsAtStart ==
  [t \in Writers \cup Readers |->
     [pc |-> "start",
      left |-> IF t \in Writers THEN Cardinality(IdsOfWriter(t)) ELSE OpsPerReader,
      wrote |-> {}]]

\* The options the caller opens the directory with.
OpenOptions ==
  {DiskOptionsHnsw(Dim, DEFAULT_MAX_ELEMENTS), DiskOptionsExact(Dim),
   DiskOptionsExactWithCheckpoint(Dim),
   [DiskOptionsHnsw(Dim, DEFAULT_MAX_ELEMENTS) EXCEPT !.use_checkpoint = TRUE]}

\* The options the caller reopens it with: those, and one of another dim.
ReopenOptions == OpenOptions \cup {DiskOptionsExact(Dim + 1)}

\* A fresh AgentMemDB (new or new_exact) and no disk store.
InitMem(kind) ==
  /\ mem = Some(NewAgentMemDB(Dim, kind))
  /\ disk = None
  /\ dir = EmptyDir
  /\ call = [op |-> "new"]
  /\ mret = Ok("unit")
  /\ dret = Ok("unit")
  /\ at_close = None
  /\ file = None
  /\ loaded = None
  /\ lret = Ok("unit")
  /\ lock = Unlocked
  /\ threads = ThreadsAtStart
  /\ crashes = 0

\* A disk store freshly opened on an empty directory, and no AgentMemDB.
InitDisk(opts) ==
  LET opened == open_with_options(EmptyDir, opts) IN
  /\ mem = None
  /\ disk = Some(opened.res[2])
  /\ dir = opened.dir
  /\ call = [op |-> "open", dim |-> Dim, after_checkpoint |-> FALSE]
  /\ mret = Ok("unit")
  /\ dret = Ok("store")
  /\ at_close = None
  /\ file = None
  /\ loaded = None
  /\ lret = Ok("unit")
  /\ lock = Unlocked
  /\ threads = ThreadsAtStart
  /\ crashes = 0

\* Both stores, with the Exact backend.
InitPair ==
  LET opened == open_with_options(EmptyDir, DiskOptionsExact(Dim)) IN
  /\ mem = Some(NewAgentMemDB(Dim, "exact"))
  /\ disk = Some(opened.res[2])
  /\ dir = opened.dir
  /\ call = [op |-> "open", dim |-> Dim, after_checkpoint |-> FALSE]
  /\ mret = Ok("unit")
  /\ dret = Ok("store")
  /\ at_close = None
  /\ file = None
  /\ loaded = None
  /\ lret = Ok("unit")
  /\ lock = Unlocked
  /\ threads = ThreadsAtStart
  /\ crashes = 0

Init ==
  \/ \E kind \in {"exact", "hnsw"} : InitMem(kind)
  \/ \E opts \in OpenOptions : InitDisk(opts)

\* ----------------------------------------------------------------- inputs
\* The ids a log mentions, in whole lines and in partial ones.
LogIds(log) ==
  UNION {{l[i][2] : i \in {j \in 1..Len(l) : l[j][1] = "id"}} : l \in Range(log)}

StoredIds(st) == DOMAIN st.episodes

\* The episodes the caller passes: of the store's dimensionality with any
\* timestamp, and of two other lengths.
EpisodeInputs(ids) ==
  UNION {{Episode(id, Dim, ts, r) : ts \in OptTimestamps, r \in RewardsOf(id)} : id \in ids}
    \cup {Episode(id, len, None, RewardOf(id)) : id \in ids, len \in {Dim - 1, Dim + 1}}
\* Cutoffs and sizes the caller prunes with.
Cutoffs == Timestamps \cup {MaxTs + 1}
KeepSizes == 0..MaxStored

\* ------------------------------------------------------ AgentMemDB actions
MemStoreEpisode ==
  /\ is_some(mem)
  /\ Cardinality(StoredIds(mem[1])) < MaxStored
  /\ \E episode \in EpisodeInputs(Ids \ StoredIds(mem[1])) :
       LET m == store_episode(mem[1], episode) IN
       /\ mem' = Some(m.db)
       /\ mret' = m.res
       /\ call' = [op |-> "store_episode", episode |-> episode]
  /\ UNCHANGED <<crashes, disk, dir, dret, at_close, persisted, shared>>

MemPruneOlderThan ==
  /\ is_some(mem)
  /\ \E cutoff \in Cutoffs, order \in Perms(StoredIds(mem[1])) :
       LET m == prune_older_than(mem[1], cutoff, order) IN
       /\ mem' = Some(m.db)
       /\ mret' = m.res
       /\ call' = [op |-> "prune_older_than", cutoff |-> cutoff]
  /\ UNCHANGED <<crashes, disk, dir, dret, at_close, persisted, shared>>

MemPruneKeepNewest ==
  /\ is_some(mem)
  /\ \E n \in KeepSizes, order \in Perms(StoredIds(mem[1])) :
       LET m == prune_keep_newest(mem[1], n, order) IN
       /\ mem' = Some(m.db)
       /\ mret' = m.res
       /\ call' = [op |-> "prune_keep_newest", n |-> n,
                   again |-> (call.op = "prune_keep_newest" /\ call.n = n)]
  /\ UNCHANGED <<crashes, disk, dir, dret, at_close, persisted, shared>>

MemPruneKeepHighestReward ==
  /\ is_some(mem)
  /\ \E n \in KeepSizes, order \in Perms(StoredIds(mem[1])) :
       LET m == prune_keep_highest_reward(mem[1], n, order) IN
       /\ mem' = Some(m.db)
       /\ mret' = m.res
       /\ call' = [op |-> "prune_keep_highest_reward", n |-> n]
  /\ UNCHANGED <<crashes, disk, dir, dret, at_close, persisted, shared>>

\* -------------------------------------------------- AgentMemDBDisk actions
\* store_episode; ios: how the write and the sync of the log may end.
DiskStoreEpisode(ios) ==
  /\ is_some(disk)
  /\ Len(dir.log[1]) < MaxStored
  /\ \E episode \in EpisodeInputs(Ids \ (StoredIds(disk[1]) \cup LogIds(dir.log[1]))), io \in ios :
       LET d == disk_store_episode(disk[1], dir, episode, io) IN
       /\ disk' = Some(d.st)
       /\ dir' = d.dir
       /\ dret' = d.res
       /\ call' = [op |-> "store_episode", episode |-> episode]
  /\ at_close' = None
  /\ UNCHANGED <<crashes, mem, mret, persisted, shared>>

DiskPruneOlderThan ==
  /\ is_some(disk)
  /\ \E cutoff \in Cutoffs, order \in Perms(StoredIds(disk[1])) :
       LET d == disk_prune_older_than(disk[1], dir, cutoff, order) IN
       /\ disk' = Some(d.st)
       /\ dir' = d.dir
       /\ dret' = d.res
       /\ call' = [op |-> "prune_older_than", cutoff |-> cutoff]
  /\ at_close' = None
  /\ UNCHANGED <<crashes, mem, mret, persisted, shared>>

DiskPruneKeepNewest ==
  /\ is_some(disk)
  /\ \E n \in KeepSizes, order \in Perms(StoredIds(disk[1])) :
       LET d == disk_prune_keep_newest(disk[1], dir, n, order) IN
       /\ disk' = Some(d.st)
       /\ dir' = d.dir
       /\ dret' = d.res
       /\ call' = [op |-> "prune_keep_newest", n |-> n,
                   again |-> (call.op = "prune_keep_newest" /\ call.n = n)]
  /\ at_close' = None
  /\ UNCHANGED <<crashes, mem, mret, persisted, shared>>

DiskPruneKeepHighestReward ==
  /\ is_some(disk)
  /\ \E n \in KeepSizes, order \in Perms(StoredIds(disk[1])) :
       LET d == disk_prune_keep_highest_reward(disk[1], dir, n, order) IN
       /\ disk' = Some(d.st)
       /\ dir' = d.dir
       /\ dret' = d.res
       /\ call' = [op |-> "prune_keep_highest_reward", n |-> n]
  /\ at_close' = None
  /\ UNCHANGED <<crashes, mem, mret, persisted, shared>>

Checkpoint ==
  /\ is_some(disk)
  /\ dir' = checkpoint(disk[1], dir)
  /\ dret' = Ok("unit")
  /\ call' = [op |-> "checkpoint", again |-> (call.op = "open" /\ call.after_checkpoint)]
  /\ UNCHANGED <<crashes, mem, mret, disk, at_close, persisted, shared>>

\* The store is dropped: the log file is closed, the RAM state is gone.
Close ==
  /\ is_some(disk)
  /\ at_close' = Some(disk[1].episodes)
  /\ disk' = None
  /\ call' = [op |-> "close", after |-> call.op, use_checkpoint |-> disk[1].use_checkpoint]
  /\ UNCHANGED <<crashes, mem, mret, dir, dret, persisted, shared>>

\* open_with_options on the directory of the dropped store.
Reopen ==
  /\ disk = None
  /\ is_some(dir.meta)
  /\ \E opts \in ReopenOptions :
       LET opened == open_with_options(dir, opts) IN
       /\ dir' = opened.dir
       /\ disk' = IF is_ok(opened.res) THEN Some(opened.res[2]) ELSE None
       /\ dret' = IF is_ok(opened.res) THEN Ok("store") ELSE opened.res
       /\ call' = [op |-> "open", dim |-> opts.dim,
                   after_checkpoint |-> (/\ call.op = "close" /\ call.after = "checkpoint"
                                         /\ call.use_checkpoint /\ opts.use_checkpoint)]
  /\ UNCHANGED <<crashes, mem, mret, at_close, persisted, shared>>

Next ==
  \/ MemStoreEpisode
  \/ MemPruneOlderThan
  \/ MemPruneKeepNewest
  \/ MemPruneKeepHighestReward
  \/ DiskStoreEpisode(IoOk)
  \/ DiskPruneOlderThan
  \/ DiskPruneKeepNewest
  \/ DiskPruneKeepHighestReward
  \/ Checkpoint
  \/ Close
  \/ Reopen

\* Crash-free, error-free operation of one store.
Spec == Init /\ [][Next]_vars

\* ---------------------------------------------------------------- queries
\* The query embeddings: the origin and the first unit vector.
QueryEmbedding(b, len) == [j \in 1..len |-> IF j = 1 THEN b ELSE 0]
QueryEmbeddings == {QueryEmbedding(b, Dim) : b \in {0, 1}}

\* The options the caller queries with: min_reward and top_k alone, and
\* each filter alone with values that pass some episodes and reject others.
WithOneFilter(base) ==
  {[base EXCEPT !.tags_any = Some(v)] : v \in {<<"a">>, <<"b", "c">>}}
    \cup {[base EXCEPT !.tags_all = Some(v)] : v \in {<<"a", "b">>, <<"b">>}}
    \cup {[base EXCEPT !.task_id_prefix = Some(v)] : v \in {<<"t">>, <<"t", "1">>}}
    \cup {[base EXCEPT !.time_after = Some(t)] : t \in Timestamps}
    \cup {[base EXCEPT !.time_before = Some(t)] : t \in Timestamps}
    \cup {[base EXCEPT !.source = Some("api")], [base EXCEPT !.user_id = Some("u1")]}

\* top_k from 0 to MaxTopK, and the two large ones: usize::MAX and half of
\* usize::MAX + 1.
WideTopKs == {USIZE_MAX, (USIZE_MAX + 1) \div 2}

QueryOptionsPool ==
  {QueryOptionsNew(r, k) : r \in {0, 1}, k \in (0..MaxTopK) \cup WideTopKs}
    \cup UNION {WithOneFilter(QueryOptionsNew(0, k)) : k \in 0..MaxTopK}

\* The (embedding, options) pairs queried: every pair of matching
\* dimensionality, and embeddings of two other lengths.
QueryInputs ==
  (QueryEmbeddings \X QueryOptionsPool)
    \cup {<<QueryEmbedding(0, len), QueryOptionsNew(0, MaxTopK)>> : len \in {Dim - 1, Dim + 1}}

\* A query leaves the store as it is: one issued after another query reaches
\* nothing that one issued after the last write does not.
MemQuery ==
  /\ is_some(mem)
  /\ call.op # "query"
  /\ \E in \in QueryInputs :
       /\ mret' \in query_similar_with_options(mem[1], in[1], in[2])
       /\ call' = [op |-> "query", query_embedding |-> in[1], opts |-> in[2]]
  /\ UNCHANGED <<crashes, mem, disk, dir, dret, at_close, persisted, shared>>

DiskQuery ==
  /\ is_some(disk)
  /\ call.op # "query"
  /\ \E in \in QueryInputs :
       /\ dret' \in disk_query_similar_with_options(disk[1], in[1], in[2])
       /\ call' = [op |-> "query", query_embedding |-> in[1], opts |-> in[2]]
  /\ UNCHANGED <<crashes, mem, disk, dir, mret, at_close, persisted, shared>>

InitQuery ==
  \/ \E kind \in {"exact", "hnsw"} : InitMem(kind)
  \/ \E opts \in {DiskOptionsExact(Dim), DiskOptionsHnsw(Dim, DEFAULT_MAX_ELEMENTS)} : InitDisk(opts)

NextQuery ==
  \/ MemStoreEpisode
  \/ DiskStoreEpisode(IoOk)
  \/ MemQuery
  \/ DiskQuery

\* Stores and queries on one store.
SpecQuery == InitQuery /\ [][NextQuery]_vars

\* ------------------------------------------------------------ I/O failures
InitIo == \E opts \in OpenOptions : InitDisk(opts)

NextIo ==
  \/ DiskStoreEpisode(IoAny)
  \/ Close
  \/ Reopen

\* The disk store with log writes and syncs that may fail.
SpecIo == InitIo /\ [][NextIo]_vars

\* ---------------------------------------------------------------- crashes
\* In place of a result, of a call the process died in.
Crashed == <<"crashed">>

\* The crashes of one run.
MaxCrashes == 1

\* The process dies inside store_episode: before the write of the log line,
\* part-way through it, before its newline, or after the line is written,
\* before or after the sync.  The RAM state is gone; the directory stays as
\* the write left it.
DiskStoreCrash ==
  /\ is_some(disk)
  /\ Len(dir.log[1]) < MaxStored
  /\ dir' \in {disk_store_episode(disk[1], dir, episode, io).dir :
                 episode \in EpisodeInputs(Ids \ (StoredIds(disk[1]) \cup LogIds(dir.log[1]))),
                 io \in IoAny}
  /\ call' = [op |-> "crash", in |-> "store_episode", keeps |-> disk[1].episodes]
  /\ crashes < MaxCrashes
  /\ crashes' = crashes + 1
  /\ dret' = Crashed
  /\ disk' = None
  /\ at_close' = None
  /\ UNCHANGED <<mem, mret, persisted, shared>>

\* The process dies inside a prune that removes something, anywhere from the
\* rebuild of the RAM state to the last sync of the log.
DiskPruneCrash ==
  /\ is_some(disk)
  /\ \E p \in {[keeps |-> q.d.st.episodes, lines |-> q.d.dir.log[1]] :
                 q \in {q \in PruneCalls(disk[1], dir, Cutoffs, KeepSizes) : q.d.res # Ok(0)}} :
       /\ dir' \in {Interrupted(dir, p.lines, at) : at \in CompactionStops(Len(p.lines))}
       /\ call' = [op |-> "crash", in |-> "prune", keeps |-> p.keeps]
  /\ crashes < MaxCrashes
  /\ crashes' = crashes + 1
  /\ dret' = Crashed
  /\ disk' = None
  /\ at_close' = None
  /\ UNCHANGED <<mem, mret, persisted, shared>>

\* The process dies inside checkpoint.
CheckpointCrash ==
  /\ is_some(disk)
  /\ \E stopped \in CheckpointStops(disk[1], dir) : dir' = stopped
  /\ call' = [op |-> "crash", in |-> "checkpoint", keeps |-> disk[1].episodes]
  /\ crashes < MaxCrashes
  /\ crashes' = crashes + 1
  /\ dret' = Crashed
  /\ disk' = None
  /\ at_close' = None
  /\ UNCHANGED <<mem, mret, persisted, shared>>

InitCrash == \E opts \in OpenOptions : InitDisk(opts)

\* The operations of a store opened on an empty directory, until the process
\* dies inside one of them; then the directory is opened again.
NextCrash ==
  \/ crashes = 0 /\ DiskStoreEpisode(IoOk)
  \/ crashes = 0 /\ DiskPruneOlderThan
  \/ crashes = 0 /\ DiskPruneKeepNewest
  \/ crashes = 0 /\ DiskPruneKeepHighestReward
  \/ crashes = 0 /\ Checkpoint
  \/ DiskStoreCrash
  \/ DiskPruneCrash
  \/ CheckpointCrash
  \/ Reopen

\* The disk store with a process that may die inside any operation.
SpecCrash == InitCrash /\ [][NextCrash]_vars

\* ------------------------------------------------- failures of compaction
\* A prune that removes something and whose compaction fails on an I/O
\* error.
DiskPruneFails ==
  /\ is_some(disk)
  /\ \E p \in {q \in PruneCalls(disk[1], dir, Cutoffs, KeepSizes) : q.d.res # Ok(0)} :
       /\ \E f \in {prune_failed(dir, p.d, at) : at \in CompactionStops(Len(p.d.dir.log[1]))} :
            /\ disk' = Some(f.st)
            /\ dir' = f.dir
            /\ dret' = f.res
       /\ call' = [op |-> "prune", rule |-> p.op, arg |-> p.arg, before |-> disk[1].episodes]
  /\ at_close' = None
  /\ UNCHANGED <<crashes, mem, mret, persisted, shared>>

InitCompact == \E opts \in OpenOptions : InitDisk(opts)

\* The operations of a store opened on an empty directory, until the
\* compaction of a prune fails.
NextCompact ==
  \/ call.op # "prune" /\ DiskStoreEpisode(IoOk)
  \/ call.op # "prune" /\ DiskPruneOlderThan
  \/ call.op # "prune" /\ DiskPruneKeepNewest
  \/ call.op # "prune" /\ DiskPruneKeepHighestReward
  \/ call.op # "prune" /\ Checkpoint
  \/ call.op # "prune" /\ DiskPruneFails

\* The disk store with prunes whose compaction fails.
SpecCompact == InitCompact /\ [][NextCompact]_vars

\* ------------------------------------------- checkpoints of a failing log
InitCheckpoint == \E opts \in OpenOptions : InitDisk(opts)

NextCheckpoint ==
  \/ DiskStoreEpisode(IoAny)
  \/ Checkpoint

\* The disk store with checkpoints, and log writes and syncs that may fail.
SpecCheckpoint == InitCheckpoint /\ [][NextCheckpoint]_vars

\* ---------------------------------------------------------- HNSW capacity
MemStoreAtCapacity ==
  /\ is_some(mem)
  /\ AtCapacity(mem[1].index)
  /\ Cardinality(StoredIds(mem[1])) < MaxStored
  /\ \E episode \in EpisodeInputs(Ids \ StoredIds(mem[1])), lib \in InsertsAtCapacity :
       LET m == store_episode_at_capacity(mem[1], episode, lib) IN
       /\ mem' = Some(m.db)
       /\ mret' = m.res
       /\ call' = [op |-> "store_episode", episode |-> episode]
  /\ UNCHANGED <<crashes, disk, dir, dret, at_close, persisted, shared>>

DiskStoreAtCapacity ==
  /\ is_some(disk)
  /\ AtCapacity(disk[1].index)
  /\ Len(dir.log[1]) < MaxStored
  /\ \E episode \in EpisodeInputs(Ids \ (StoredIds(disk[1]) \cup LogIds(dir.log[1]))),
        lib \in InsertsAtCapacity :
       LET d == disk_store_episode_at_capacity(disk[1], dir, episode, lib) IN
       /\ disk' = Some(d.st)
       /\ dir' = d.dir
       /\ dret' = d.res
       /\ call' = [op |-> "store_episode", episode |-> episode]
  /\ at_close' = None
  /\ UNCHANGED <<crashes, mem, mret, persisted, shared>>

\* A store of either kind: HNSW, constructed with one of the capacities, or
\* Exact.
InitCapacity ==
  \E c \in Capacities :
    \/ /\ mem = Some(new_with_max_elements(Dim, c))
       /\ disk = None
       /\ dir = EmptyDir
       /\ call = [op |-> "new"]
       /\ mret = Ok("unit")
       /\ dret = Ok("unit")
       /\ at_close = None
       /\ file = None
       /\ loaded = None
       /\ lret = Ok("unit")
       /\ lock = Unlocked
       /\ threads = ThreadsAtStart
       /\ crashes = 0
    \/ InitDisk(DiskOptionsHnsw(Dim, c))
    \/ InitMem("exact")
    \/ InitDisk(DiskOptionsExact(Dim))

NextCapacity ==
  \/ is_some(mem) /\ ~AtCapacity(mem[1].index) /\ MemStoreEpisode
  \/ MemStoreAtCapacity
  \/ MemPruneOlderThan
  \/ MemPruneKeepNewest
  \/ MemPruneKeepHighestReward
  \/ is_some(disk) /\ ~AtCapacity(disk[1].index) /\ DiskStoreEpisode(IoOk)
  \/ DiskStoreAtCapacity
  \/ DiskPruneOlderThan
  \/ DiskPruneKeepNewest
  \/ DiskPruneKeepHighestReward

\* Stores filled and pruned, the HNSW ones of a given capacity.
SpecCapacity == InitCapacity /\ [][NextCapacity]_vars

\* ------------------------------------------------------- opening a directory
\* The options a directory is opened with: those of a reopening, HNSW of
\* another capacity, and options that name no index type.
OpenInputs ==
  ReopenOptions \cup {DiskOptionsHnsw(Dim, 1),
                      [DiskOptionsHnsw(Dim, DEFAULT_MAX_ELEMENTS) EXCEPT !.index_type = None]}

\* open_with_options on the directory, new or left by a dropped store.
Open ==
  /\ disk = None
  /\ \E opts \in OpenInputs :
       LET opened == open_with_options(dir, opts) IN
       /\ dir' = opened.dir
       /\ disk' = IF is_ok(opened.res) THEN Some(opened.res[2]) ELSE None
       /\ dret' = IF is_ok(opened.res) THEN Ok("store") ELSE opened.res
       /\ call' = [op |-> "open", dim |-> opts.dim, after_checkpoint |-> FALSE, opts |-> opts]
  /\ UNCHANGED <<crashes, mem, mret, at_close, persisted, shared>>

\* No store yet, and an empty directory.
InitOpen ==
  /\ mem = None
  /\ disk = None
  /\ dir = EmptyDir
  /\ call = [op |-> "none"]
  /\ mret = Ok("unit")
  /\ dret = Ok("unit")
  /\ at_close = None
  /\ file = None
  /\ loaded = None
  /\ lret = Ok("unit")
  /\ lock = Unlocked
  /\ threads = ThreadsAtStart
  /\ crashes = 0

NextOpen ==
  \/ Open
  \/ is_some(disk) /\ ~AtCapacity(disk[1].index) /\ DiskStoreEpisode(IoOk)
  \/ Checkpoint
  \/ Close

\* A directory opened, written and reopened under any options.
SpecOpen == InitOpen /\ [][NextOpen]_vars

\* ----------------------------------------------------------- duplicate ids
\* The most keys a store holds beyond its episodes.
MaxDuplicates == 1

\* store_episode of an episode whose id the store already holds.
MemStoreDuplicate ==
  /\ is_some(mem)
  /\ IndexLen(mem[1].index) - Cardinality(StoredIds(mem[1])) < MaxDuplicates
  /\ \E episode \in EpisodeInputs(StoredIds(mem[1])) :
       LET m == store_episode(mem[1], episode) IN
       /\ mem' = Some(m.db)
       /\ mret' = m.res
       /\ call' = [op |-> "store_episode", episode |-> episode]
  /\ UNCHANGED <<crashes, disk, dir, dret, at_close, persisted, shared>>

DiskStoreDuplicate ==
  /\ is_some(disk)
  /\ IndexLen(disk[1].index) - Cardinality(StoredIds(disk[1])) < MaxDuplicates
  /\ \E episode \in EpisodeInputs(StoredIds(disk[1])) :
       LET d == disk_store_episode(disk[1], dir, episode, "ok") IN
       /\ disk' = Some(d.st)
       /\ dir' = d.dir
       /\ dret' = d.res
       /\ call' = [op |-> "store_episode", episode |-> episode]
  /\ at_close' = None
  /\ UNCHANGED <<crashes, mem, mret, persisted, shared>>

NextDuplicate ==
  \/ MemStoreEpisode
  \/ MemStoreDuplicate
  \/ MemPruneOlderThan
  \/ MemPruneKeepNewest
  \/ DiskStoreEpisode(IoOk)
  \/ DiskStoreDuplicate
  \/ DiskPruneOlderThan
  \/ DiskPruneKeepNewest

\* Either store, with callers that store an id again.
SpecDuplicate == Init /\ [][NextDuplicate]_vars

\* ------------------------------------------------------- both stores
\* store_episode(episode) on both stores.
PairStoreEpisode ==
  /\ Cardinality(StoredIds(mem[1])) < MaxStored
  /\ \E episode \in EpisodeInputs(Ids \ StoredIds(mem[1])) :
       LET m == store_episode(mem[1], episode)
           d == disk_store_episode(disk[1], dir, episode, "ok")
       IN /\ mem' = Some(m.db)
          /\ mret' = m.res
          /\ disk' = Some(d.st)
          /\ dir' = d.dir
          /\ dret' = d.res
          /\ call' = [op |-> "store_episode", episode |-> episode]
  /\ UNCHANGED <<crashes, at_close, persisted, shared>>

\* The same query on both stores.
PairQuery ==
  /\ call.op # "query"
  /\ \E in \in QueryInputs :
       /\ mret' \in query_similar_with_options(mem[1], in[1], in[2])
       /\ dret' \in disk_query_similar_with_options(disk[1], in[1], in[2])
       /\ call' = [op |-> "query", query_embedding |-> in[1], opts |-> in[2]]
  /\ UNCHANGED <<crashes, mem, disk, dir, at_close, persisted, shared>>

NextPair == PairStoreEpisode \/ PairQuery

\* An Exact AgentMemDB and an Exact AgentMemDBDisk given the same stores.
SpecPair == InitPair /\ [][NextPair]_vars

\* ------------------------------------------------------------ persistence
\* save_to_file, once in a run: File::create truncates, so that a later save
\* leaves the file a first save leaves.
SaveToFile ==
  /\ is_some(mem)
  /\ file = None
  /\ \E order \in Perms(StoredIds(mem[1])) :
       file' = Some(save_to_file(mem[1], order))
  /\ mret' = Ok("unit")
  /\ call' = [op |-> "save_to_file"]
  /\ UNCHANGED <<crashes, mem, disk, dir, dret, at_close, loaded, lret, shared>>

\* load_from_file or load_from_file_exact, into a second AgentMemDB, until
\* one succeeds.
LoadFromFile ==
  /\ loaded = None
  /\ \E use_exact \in BOOLEAN :
       LET l == load_from_file_with_index(file, use_exact) IN
       /\ loaded' = IF is_ok(l) THEN Some(l[2]) ELSE None
       /\ lret' = IF is_ok(l) THEN Ok("store") ELSE l
       /\ call' = [op |-> "load_from_file", use_exact |-> use_exact, after |-> call.op]
  /\ UNCHANGED <<crashes, mem, disk, dir, mret, dret, at_close, file, shared>>

\* The same query_similar on the store and on the one just loaded.
QueryBoth ==
  /\ is_some(mem)
  /\ is_some(loaded)
  /\ call.op = "load_from_file"
  /\ \E query_embedding \in QueryEmbeddings, min_reward \in {0, 1}, top_k \in 0..MaxTopK :
       /\ mret' \in query_similar(mem[1], query_embedding, min_reward, top_k)
       /\ lret' \in query_similar(loaded[1], query_embedding, min_reward, top_k)
       /\ call' = [op |-> "query", query_embedding |-> query_embedding,
                   opts |-> QueryOptionsNew(min_reward, top_k),
                   use_exact |-> call.use_exact, after |-> call.after]
  /\ UNCHANGED <<crashes, mem, disk, dir, dret, at_close, file, loaded, shared>>

InitPersist == \E kind \in {"exact", "hnsw"} : InitMem(kind)

NextPersist ==
  \/ MemStoreEpisode
  \/ SaveToFile
  \/ LoadFromFile
  \/ QueryBoth

\* An AgentMemDB that is saved to a file and loaded from it.
SpecPersist == InitPersist /\ [][NextPersist]_vars

\* ---------------------------------------------------------------- batches
\* The longest Vec passed to store_episodes.
MaxBatch == 3
\* The Vecs the caller passes: episodes of distinct ids not in the store,
\* of the store's dimensionality or not.
Batches(ids) ==
  UNION {{b \in [1..len -> EpisodeInputs(ids)] : \A i, j \in 1..len : b[i].id = b[j].id => i = j}
           : len \in 0..MaxBatch}

MemStoreEpisodes ==
  /\ is_some(mem)
  /\ \E episodes \in Batches(Ids \ StoredIds(mem[1])) :
       /\ Cardinality(StoredIds(mem[1])) + Len(episodes) <= MaxStored
       /\ LET m == store_episodes(mem[1], episodes) IN
          /\ mem' = Some(m.db)
          /\ mret' = m.res
          /\ call' = [op |-> "store_episodes", episodes |-> episodes]
  /\ UNCHANGED <<crashes, disk, dir, dret, at_close, persisted, shared>>

InitBatch == \E kind \in {"exact", "hnsw"} : InitMem(kind)

NextBatch == MemStoreEpisode \/ MemStoreEpisodes

\* An AgentMemDB given episodes one by one and in batches.
SpecBatch == InitBatch /\ [][NextBatch]_vars

\* ------------------------------------------------- Arc<RwLock<AgentMemDB>>
\* The episodes a writer stores: of the store's dimensionality, without
\* timestamp, of ids it has not stored.
WriterEpisodes(t) ==
  UNION {{Episode(id, Dim, None, r) : r \in RewardsOf(id)}
           : id \in IdsOfWriter(t) \ {e.id : e \in threads[t].wrote}}

\* db.write(): granted while no thread holds the lock.
AcquireWrite(t) ==
  /\ t \in Writers
  /\ threads[t].pc = "start"
  /\ threads[t].left > 0
  /\ lock = Unlocked
  /\ lock' = [lock EXCEPT !.writer = Some(t)]
  /\ threads' = [threads EXCEPT ![t].pc = "write"]
  /\ UNCHANGED <<crashes, mem, disk, dir, call, mret, dret, at_close, persisted>>

\* guard.store_episode(ep) under the write lock.
StoreLocked(t) ==
  /\ threads[t].pc = "write"
  /\ lock.writer = Some(t)
  /\ \E episode \in WriterEpisodes(t) :
       LET m == store_episode(mem[1], episode) IN
       /\ mem' = Some(m.db)
       /\ mret' = m.res
       /\ call' = [op |-> "store_episode", episode |-> episode, thread |-> t]
       /\ threads' = [threads EXCEPT ![t].pc = "release", ![t].left = @ - 1,
                                     ![t].wrote = @ \cup {episode}]
  /\ UNCHANGED <<crashes, disk, dir, dret, at_close, persisted, lock>>

\* db.read(): granted while no thread holds the lock for writing.
AcquireRead(t) ==
  /\ t \in Readers
  /\ threads[t].pc = "start"
  /\ threads[t].left > 0
  /\ lock.writer = None
  /\ lock' = [lock EXCEPT !.readers = @ \cup {t}]
  /\ threads' = [threads EXCEPT ![t].pc = "read"]
  /\ UNCHANGED <<crashes, mem, disk, dir, call, mret, dret, at_close, persisted>>

\* guard.query_similar(query, min_reward, top_k) under the read lock.
QueryLocked(t) ==
  /\ threads[t].pc = "read"
  /\ t \in lock.readers
  /\ \E query_embedding \in QueryEmbeddings, min_reward \in {0, 1}, top_k \in 1..MaxTopK :
       /\ mret' \in query_similar(mem[1], query_embedding, min_reward, top_k)
       /\ call' = [op |-> "query", query_embedding |-> query_embedding,
                   opts |-> QueryOptionsNew(min_reward, top_k), thread |-> t]
  /\ threads' = [threads EXCEPT ![t].pc = "release", ![t].left = @ - 1]
  /\ UNCHANGED <<crashes, mem, disk, dir, dret, at_close, persisted, lock>>

\* The guard is dropped.
Release(t) ==
  /\ threads[t].pc = "release"
  /\ lock' = IF t \in Writers THEN [lock EXCEPT !.writer = None]
             ELSE [lock EXCEPT !.readers = @ \ {t}]
  /\ threads' = [threads EXCEPT ![t].pc = IF threads[t].left = 0 THEN "finished" ELSE "start"]
  /\ UNCHANGED <<crashes, mem, disk, dir, call, mret, dret, at_close, persisted>>

Joined == \A t \in Writers \cup Readers : threads[t].pc = "finished"
Written == UNION {threads[t].wrote : t \in Writers}

\* After the joins: query_similar with top_k above the number stored.
QueryAfterJoin ==
  /\ Joined
  /\ call.op # "query_after_join"
  /\ LET opts == QueryOptionsNew(0, Cardinality(Written) + 1) IN
     /\ mret' \in query_similar(mem[1], QueryEmbedding(0, Dim), opts.min_reward, opts.top_k)
     /\ call' = [op |-> "query_after_join", query_embedding |-> QueryEmbedding(0, Dim),
                 opts |-> opts]
  /\ UNCHANGED <<crashes, mem, disk, dir, dret, at_close, persisted, shared>>

InitShared == \E kind \in {"exact", "hnsw"} : InitMem(kind)

NextShared ==
  \/ \E t \in Writers : AcquireWrite(t)
  \/ \E t \in Writers : StoreLocked(t)
  \/ \E t \in Readers : AcquireRead(t)
  \/ \E t \in Readers : QueryLocked(t)
  \/ \E t \in Writers \cup Readers : Release(t)
  \/ QueryAfterJoin

\* Writer and reader threads on an AgentMemDB in an RwLock.
SpecShared == InitShared /\ [][NextShared]_vars

\* --------------------------------------------------------- equal distances
\* Episodes that all have one embedding (emb.clone() in the test), with any
\* timestamp.
SameEmbedding == QueryEmbedding(1, Dim)
TiedEpisodes(ids) ==
  {[Episode(id, Dim, ts, RewardOf(id)) EXCEPT !.state_embedding = SameEmbedding]
     : id \in ids, ts \in OptTimestamps}

StoreTied ==
  /\ is_some(mem)
  /\ Cardinality(StoredIds(mem[1])) < MaxStored
  /\ \E episode \in TiedEpisodes(Ids \ StoredIds(mem[1])) :
       LET m == store_episode(mem[1], episode) IN
       /\ mem' = Some(m.db)
       /\ mret' = m.res
       /\ call' = [op |-> "store_episode", episode |-> episode]
  /\ UNCHANGED <<crashes, disk, dir, dret, at_close, persisted, shared>>

QueryTied ==
  /\ is_some(mem)
  /\ call.op # "query"
  /\ \E query_embedding \in QueryEmbeddings, opts \in QueryOptionsPool :
       /\ mret' \in query_similar_with_options(mem[1], query_embedding, opts)
       /\ call' = [op |-> "query", query_embedding |-> query_embedding, opts |-> opts]
  /\ UNCHANGED <<crashes, mem, disk, dir, dret, at_close, persisted, shared>>

InitRecency == InitMem("exact")

NextRecency == StoreTied \/ QueryTied

\* An Exact AgentMemDB whose episodes are all at one distance from a query.
SpecRecency == InitRecency /\ [][NextRecency]_vars

\* ================================================================= claims
\* The three sizes of a store: key_to_uuid, episodes, index.
Sizes(st) == <<Cardinality(DOMAIN st.key_to_uuid), Cardinality(DOMAIN st.episodes), IndexLen(st.index)>>

\* The map and the table correspond one to one.
OneToOne(st) ==
  /\ Sizes(st)[1] = Sizes(st)[2]
  /\ Sizes(st)[2] = Sizes(st)[3]
  /\ DOMAIN st.episodes = {st.key_to_uuid[k] : k \in DOMAIN st.key_to_uuid}
  /\ \A j, k \in DOMAIN st.key_to_uuid : st.key_to_uuid[j] = st.key_to_uuid[k] => j = k

C1_Fresh == (is_some(mem) => Sizes(mem[1]) = <<0, 0, 0>>) /\ (is_some(disk) => Sizes(disk[1]) = <<0, 0, 0>>)
C1_Inv == (is_some(mem) => OneToOne(mem[1])) /\ (is_some(disk) => OneToOne(disk[1]))
C1_Step ==
  call'.op = "store_episode" =>
    /\ (is_some(mem) /\ is_ok(mret')) =>
         \A i \in 1..3 : Sizes(mem'[1])[i] = Sizes(mem[1])[i] + 1
    /\ (is_some(disk) /\ is_ok(dret')) =>
         \A i \in 1..3 : Sizes(disk'[1])[i] = Sizes(disk[1])[i] + 1

\* C1: in both stores, after every mutation applied to episodes with
\* distinct ids, key_to_uuid and the episode table are in one-to-one
\* correspondence (|key_to_uuid| = |episodes| = index.len(), an id is in the
\* table iff it is a value of the map); a fresh store has all three sizes 0
\* and every successful store_episode adds one to each, so after n of them
\* on a fresh store all three are n.
C1_OneToOne == C1_Fresh /\ [](C1_Inv) /\ [][C1_Step]_vars

C1_Witness ==
  /\ is_some(disk)
  /\ call.op = "prune_keep_newest"
  /\ dret = Ok(1)
  /\ Sizes(disk[1]) = <<2, 2, 2>>

\* C2: for the disk store in crash-free, error-free operation (open, store,
\* checkpoint, the three prunes, close, reopen), the ids written in
\* episodes.jsonl are the ids of the in-RAM episode table.
C2_LogIsTable == is_some(disk) => LogIds(dir.log[1]) = StoredIds(disk[1])

C2_Witness ==
  /\ is_some(disk)
  /\ call.op = "prune_older_than"
  /\ dret = Ok(2)
  /\ Cardinality(StoredIds(disk[1])) = 1
  /\ Len(dir.log[1]) = 1

C10_Kept(episodes, cutoff) ==
  {id \in DOMAIN episodes :
     episodes[id].timestamp = None \/ episodes[id].timestamp[1] >= cutoff}

C10_Pruned(before, after, cutoff, removed) ==
  /\ DOMAIN after = C10_Kept(before, cutoff)
  /\ \A id \in DOMAIN after : after[id] = before[id]
  /\ removed = Cardinality(DOMAIN before) - Cardinality(DOMAIN after)

C10_Step ==
  call'.op = "prune_older_than" =>
    /\ is_some(mem) => C10_Pruned(mem[1].episodes, mem'[1].episodes, call'.cutoff, mret')
    /\ is_some(disk) =>
         /\ is_ok(dret')
         /\ C10_Pruned(disk[1].episodes, disk'[1].episodes, call'.cutoff, dret'[2])

\* C10: prune_older_than(cutoff), on either store, keeps exactly the
\* episodes whose timestamp is absent or >= cutoff, removes all others, and
\* returns the number removed, |episodes before| - |episodes after|.
C10_PruneOlderThan == [][C10_Step]_vars

C10_Witness ==
  /\ is_some(mem)
  /\ call.op = "prune_older_than"
  /\ call.cutoff = 1
  /\ mret = 1
  /\ \E id \in StoredIds(mem[1]) : mem[1].episodes[id].timestamp = None
  /\ \E id \in StoredIds(mem[1]) : mem[1].episodes[id].timestamp = Some(1)

\* The list a query returned, on the store of the run.
QueryReturned == call.op = "query" /\ is_ok(IF is_some(mem) THEN mret ELSE dret)
Returned == IF is_some(mem) THEN mret[2] ELSE dret[2]
Queried == IF is_some(mem) THEN mem[1] ELSE disk[1]

\* >= on f32: false when either side is NaN.
f32_ge(a, b) == a # NaN /\ b # NaN /\ a >= b

\* The conditions the filters of opts put on an episode.
C4_Passes(opts, e) ==
  LET tags == IF e.tags = None THEN {} ELSE Range(e.tags[1]) IN
  /\ f32_ge(e.reward, opts.min_reward)
  /\ opts.tags_any # None => Range(opts.tags_any[1]) \cap tags # {}
  /\ opts.tags_all # None => Range(opts.tags_all[1]) \subseteq tags
  /\ opts.task_id_prefix # None =>
       /\ Len(e.task_id) >= Len(opts.task_id_prefix[1])
       /\ \A i \in 1..Len(opts.task_id_prefix[1]) : e.task_id[i] = opts.task_id_prefix[1][i]
  /\ opts.time_after # None => (e.timestamp # None /\ e.timestamp[1] >= opts.time_after[1])
  /\ opts.time_before # None => (e.timestamp # None /\ e.timestamp[1] <= opts.time_before[1])
  /\ opts.source # None => (e.source # None /\ e.source[1] = opts.source[1])
  /\ opts.user_id # None => (e.user_id # None /\ e.user_id[1] = opts.user_id[1])

\* C4: every episode a query returns, on either store and for every
\* QueryOptions, passes the filters: reward >= min_reward; one of tags_any;
\* all of tags_all; task_id starts with task_id_prefix; a timestamp that is
\* >= time_after and <= time_before; source and user_id present and equal.
C4_ResultsPassFilters ==
  QueryReturned => \A i \in 1..Len(Returned) : C4_Passes(call.opts, Returned[i])

C6_Step ==
  /\ (call'.op = "store_episode" /\ is_some(mem)
        /\ Len(call'.episode.state_embedding) # mem[1].dim) =>
       /\ mret' = <<"DimensionMismatch", mem[1].dim, Len(call'.episode.state_embedding)>>
       /\ mem' = mem
  /\ (call'.op = "store_episode" /\ is_some(disk)
        /\ Len(call'.episode.state_embedding) # disk[1].dim) =>
       /\ dret' = <<"DimensionMismatch", disk[1].dim, Len(call'.episode.state_embedding)>>
       /\ disk' = disk
       /\ dir' = dir
  /\ (call'.op = "query" /\ is_some(mem) /\ Len(call'.query_embedding) # mem[1].dim) =>
       mret' = <<"DimensionMismatch", mem[1].dim, Len(call'.query_embedding)>>
  /\ (call'.op = "query" /\ is_some(disk) /\ Len(call'.query_embedding) # disk[1].dim) =>
       dret' = <<"DimensionMismatch", disk[1].dim, Len(call'.query_embedding)>>

\* C6: store_episode with an embedding of a length other than dim fails
\* with DimensionMismatch{expected = dim, got = the length} and changes
\* nothing: table, map and index stay, and the disk store appends no line
\* to the log.  A query with such an embedding fails with the same error.
C6_WrongLength == [][C6_Step]_vars

C6_Witness ==
  /\ is_some(disk)
  /\ call.op = "store_episode"
  /\ dret = <<"DimensionMismatch", Dim, Dim + 1>>
  /\ Len(dir.log[1]) = 1
  /\ Cardinality(StoredIds(disk[1])) = 1

C7_Step ==
  (call'.op = "store_episode" /\ is_some(disk)) =>
    LET line == to_string(call'.episode)
        log == dir'.log[1]
    IN /\ ~is_ok(dret') => disk' = disk
       /\ disk' # disk =>
            /\ log # <<>>
            /\ Len(log[Len(log)]) >= Len(line)
            /\ SubSeq(log[Len(log)], Len(log[Len(log)]) - Len(line) + 1, Len(log[Len(log)])) = line

\* C7: the disk store's store_episode writes the episode's line to the log
\* and syncs it before it updates anything in RAM: when the write or the
\* sync fails it returns an error and the table, the map and the index are
\* as before; when RAM is updated the line is in the log, newline included.
C7_LogBeforeRam == [][C7_Step]_vars

C7_Witness ==
  /\ is_some(disk)
  /\ call.op = "store_episode"
  /\ dret = HnswError("Sync log")
  /\ Cardinality(StoredIds(disk[1])) = 1
  /\ Len(dir.log[1]) = 2

C9_Distance(e) == l2_distance(call.query_embedding, e.state_embedding)
\* a is to come before b among equidistant episodes: a has the later
\* timestamp, or a has a timestamp and b has none.
C9_Newer(a, b) ==
  /\ a.timestamp # None
  /\ b.timestamp = None \/ a.timestamp[1] > b.timestamp[1]

\* C9: the list the in-memory store returns is ordered by distance to the
\* query ascending and, at equal distance, by timestamp descending, an
\* episode without timestamp after every episode that has one.
C9_Ordered ==
  (QueryReturned /\ is_some(mem)) =>
    \A i, j \in 1..Len(Returned) :
      i < j =>
        /\ C9_Distance(Returned[i]) <= C9_Distance(Returned[j])
        /\ C9_Distance(Returned[i]) = C9_Distance(Returned[j]) => ~C9_Newer(Returned[j], Returned[i])

\* s is at least as new as r, an absent timestamp being older than every
\* timestamp.
NotOlder(s, r) ==
  r.timestamp = None \/ (s.timestamp # None /\ s.timestamp[1] >= r.timestamp[1])

C11_Pruned(before, after, n, removed) ==
  IF Cardinality(DOMAIN before) <= n
  THEN removed = 0 /\ after = before
  ELSE /\ Cardinality(DOMAIN after) = n
       /\ removed = Cardinality(DOMAIN before) - n
       /\ DOMAIN after \subseteq DOMAIN before
       /\ \A id \in DOMAIN after : after[id] = before[id]
       /\ \A s \in DOMAIN after, r \in DOMAIN before \ DOMAIN after :
            NotOlder(before[s], before[r])

C11_Step ==
  call'.op = "prune_keep_newest" =>
    /\ is_some(mem) =>
         /\ C11_Pruned(mem[1].episodes, mem'[1].episodes, call'.n, mret')
         /\ Cardinality(StoredIds(mem[1])) <= call'.n => mem' = mem
    /\ is_some(disk) =>
         /\ is_ok(dret')
         /\ C11_Pruned(disk[1].episodes, disk'[1].episodes, call'.n, dret'[2])
         /\ Cardinality(StoredIds(disk[1])) <= call'.n => (disk' = disk /\ dir' = dir)

\* C11: prune_keep_newest(n) on a store of at most n episodes returns 0 and
\* leaves the store, the log and the checkpoint as they are; otherwise n
\* episodes remain, all of them previous episodes, it returns the number
\* before minus n, and no survivor is older than a removed episode, an
\* absent timestamp being older than every timestamp.
C11_KeepNewest == [][C11_Step]_vars

\* r ranks strictly above s: a higher reward, or the same reward and a later
\* timestamp, an absent timestamp being older than every timestamp.
C12_RanksAbove(r, s) ==
  \/ f32_lt(s.reward, r.reward)
  \/ /\ r.reward # NaN /\ r.reward = s.reward
     /\ r.timestamp # None
     /\ s.timestamp = None \/ r.timestamp[1] > s.timestamp[1]

C12_Pruned(before, after, n, removed) ==
  IF Cardinality(DOMAIN before) <= n
  THEN removed = 0 /\ after = before
  ELSE /\ Cardinality(DOMAIN after) = n
       /\ removed = Cardinality(DOMAIN before) - n
       /\ DOMAIN after \subseteq DOMAIN before
       /\ \A id \in DOMAIN after : after[id] = before[id]
       /\ \A s \in DOMAIN after, r \in DOMAIN before \ DOMAIN after :
            ~C12_RanksAbove(before[r], before[s])

C12_Step ==
  call'.op = "prune_keep_highest_reward" =>
    /\ is_some(mem) =>
         /\ C12_Pruned(mem[1].episodes, mem'[1].episodes, call'.n, mret')
         /\ Cardinality(StoredIds(mem[1])) <= call'.n => mem' = mem
    /\ is_some(disk) =>
         /\ is_ok(dret')
         /\ C12_Pruned(disk[1].episodes, disk'[1].episodes, call'.n, dret'[2])
         /\ Cardinality(StoredIds(disk[1])) <= call'.n => (disk' = disk /\ dir' = dir)

\* C12: prune_keep_highest_reward(n) on a store of at most n episodes
\* returns 0 and changes nothing; otherwise n episodes remain, it returns
\* the number before minus n, and no removed episode ranks strictly above a
\* survivor by reward descending, then timestamp descending, an absent
\* timestamp being older than every timestamp.
C12_KeepHighestReward == [][C12_Step]_vars

PruneOps == {"prune_older_than", "prune_keep_newest", "prune_keep_highest_reward"}

C13_PruneStep ==
  (call'.op \in PruneOps /\ is_some(disk) /\ dret'[2] >= 1) =>
    LET log == dir'.log[1]
        episodes == disk'[1].episodes
    IN /\ Len(log) = Cardinality(DOMAIN episodes)
       /\ \A i \in 1..Len(log) : \E id \in DOMAIN episodes : log[i] = to_string(episodes[id])
       /\ \A i, j \in 1..Len(log) : log[i] = log[j] => i = j
       /\ dir'.checkpoint = None

C13_ReopenStep ==
  (call.op = "close" /\ call.after \in PruneOps /\ dret[2] >= 1 /\ call'.op = "open") =>
    (is_some(disk') /\ disk'[1].episodes = at_close[1])

C14_Step ==
  (call'.op = "prune_keep_newest" /\ call.op = "prune_keep_newest" /\ call'.n = call.n) =>
    /\ is_some(mem) => (mem'[1].episodes = mem[1].episodes /\ mret' = 0)
    /\ is_some(disk) => (disk'[1].episodes = disk[1].episodes /\ dret' = Ok(0))

\* C14: prune_keep_newest(k) is idempotent: applied a second time, in any
\* store state and for any k, it leaves the episode set of the first
\* application and returns 0.
C14_KeepNewestTwice == [][C14_Step]_vars

C14_Witness ==
  /\ is_some(mem)
  /\ call.op = "prune_keep_newest"
  /\ call.again
  /\ call.n = 2
  /\ mret = 0
  /\ Cardinality(StoredIds(mem[1])) = 2

\* The ids of the episodes a query returned (none for an error).
ReturnedIds(r) == IF is_ok(r) THEN {r[2][i].id : i \in 1..Len(r[2])} ELSE {}

\* C15: for an Exact AgentMemDB with distinct episode ids and every query
\* (embedding, min_reward, top_k), the store loaded by load_from_file_exact
\* from the file that save_to_file wrote returns the set of ids that the
\* store saved returns.
C15_SameIdsAfterLoad ==
  (/\ call.op = "query"
   /\ call.after = "save_to_file"
   /\ call.use_exact
   /\ mem[1].index.kind = "exact")
    => (is_ok(mret) = is_ok(lret) /\ ReturnedIds(mret) = ReturnedIds(lret))

\* C16: save, load, save round-trips: the store loaded from the file that
\* save_to_file just wrote has the dim and the episodes (ids and field
\* values) of the store saved, and saving it writes the same episode set.
C16_RoundTrip ==
  (call.op = "load_from_file" /\ call.after = "save_to_file") =>
    /\ is_some(loaded)
    /\ loaded[1].dim = mem[1].dim
    /\ loaded[1].episodes = mem[1].episodes
    /\ \A order \in Perms(StoredIds(loaded[1])) :
         LET again == save_to_file(loaded[1], order) IN
         again.dim = file[1].dim /\ Range(again.episodes) = Range(file[1].episodes)

C17_Step ==
  (/\ call.op = "open" /\ call.after_checkpoint
   /\ is_some(disk) /\ disk[1].index.kind = "exact"
   /\ call'.op = "checkpoint")
    => /\ dir'.checkpoint = dir.checkpoint
       /\ dir'.meta[1].checkpoint_line_count = dir.meta[1].checkpoint_line_count

\* C17: for an Exact AgentMemDBDisk with use_checkpoint, checkpoint, close,
\* reopen, checkpoint leaves exact_checkpoint.json with the episode list the
\* first checkpoint left and meta.checkpoint_line_count unchanged.
C17_CheckpointTwice == [][C17_Step]_vars

C17_Witness ==
  /\ call.op = "checkpoint"
  /\ call.again
  /\ is_some(disk)
  /\ disk[1].index.kind = "exact"
  /\ is_some(dir.checkpoint)
  /\ Len(dir.checkpoint[1]) = 2
  /\ dir.meta[1].checkpoint_line_count = Some(2)

\* C18: with the AgentMemDB in an RwLock, writers storing episodes of
\* distinct ids under the write lock and readers querying under the read
\* lock: no store and no query fails; every query result holds only
\* episodes whose embedding has length dim and whose reward is >= min_reward;
\* once all threads have finished the table holds exactly the episodes
\* written, and an Exact store returns them all to a query with top_k above
\* their number.
C18_SharedStore ==
  /\ is_ok(mret)
  /\ call.op \in {"query", "query_after_join"} =>
       \A i \in 1..Len(mret[2]) :
         /\ Len(mret[2][i].state_embedding) = mem[1].dim
         /\ f32_ge(mret[2][i].reward, call.opts.min_reward)
  /\ Joined =>
       /\ StoredIds(mem[1]) = {e.id : e \in Written}
       /\ \A e \in Written : mem[1].episodes[e.id] = e
  /\ (call.op = "query_after_join" /\ mem[1].index.kind = "exact") =>
       /\ Len(mret[2]) = Cardinality(Written)
       /\ Range(mret[2]) = Written

\* The positions of a batch whose episode has not the store's length.
C19_Wrong(episodes, dim) == {i \in 1..Len(episodes) : Len(episodes[i].state_embedding) # dim}
\* The batch up to its first wrong-length episode, or whole.
C19_Stored(episodes, dim) ==
  IF C19_Wrong(episodes, dim) = {} THEN episodes
  ELSE SubSeq(episodes, 1, (CHOOSE i \in C19_Wrong(episodes, dim) :
                              \A j \in C19_Wrong(episodes, dim) : i <= j) - 1)

C19_Step ==
  call'.op = "store_episodes" =>
    LET episodes == call'.episodes
        dim == mem[1].dim
        stored == C19_Stored(episodes, dim)
    IN /\ IF Len(stored) = Len(episodes) THEN mret' = Ok("unit")
          ELSE mret' = DimensionMismatch(dim, Len(episodes[Len(stored) + 1].state_embedding))
       /\ StoredIds(mem'[1]) = StoredIds(mem[1]) \cup {stored[i].id : i \in 1..Len(stored)}
       /\ \A i \in 1..Len(stored) : mem'[1].episodes[stored[i].id] = stored[i]
       /\ \A id \in StoredIds(mem[1]) : mem'[1].episodes[id] = mem[1].episodes[id]
       /\ \A i \in (Len(stored) + 1)..Len(episodes) : episodes[i].id \notin StoredIds(mem'[1])
       /\ mem'[1].index.vectors =
            mem[1].index.vectors \o [i \in 1..Len(stored) |-> stored[i].state_embedding]

\* C19: store_episodes(vec) stores the episodes in order and fails fast: at
\* the first episode i of wrong embedding length it returns
\* DimensionMismatch, with the episodes before i in the table and the
\* episodes from i on absent.
C19_FailFast == [][C19_Step]_vars

C19_Witness ==
  /\ call.op = "store_episodes"
  /\ Len(call.episodes) = 3
  /\ C19_Wrong(call.episodes, mem[1].dim) = {2}
  /\ ~is_ok(mret)
  /\ StoredIds(mem[1]) = {call.episodes[1].id}

C20_Step ==
  (call'.op = "open" /\ is_some(dir.meta) /\ call'.dim # dir.meta[1].dim) =>
    /\ dret' = <<"HnswError", "Dimension mismatch: meta has {}, requested {}",
                 dir.meta[1].dim, call'.dim>>
    /\ disk' = None
    /\ dir' = dir

\* C20: opening an existing directory with opts.dim other than the dim in
\* meta.json fails with an error that names both values, returns no store,
\* and leaves meta.json, episodes.jsonl and exact_checkpoint.json as they
\* were.
C20_OpenOtherDim == [][C20_Step]_vars

C20_Witness ==
  /\ call.op = "open"
  /\ call.dim = Dim + 1
  /\ dir.meta[1].dim = Dim
  /\ disk = None
  /\ ~is_ok(dret)
  /\ is_some(dir.checkpoint)
  /\ Len(dir.log[1]) = 2

\* An episode passes the filters of opts other than min_reward.
C21_PassesFilters(opts, e) == C4_Passes(opts, [e EXCEPT !.reward = opts.min_reward])
\* The boundary cases: top_k = 0; an empty store; filters no stored episode
\* passes; min_reward above every stored reward.
C21_Boundary(opts, episodes) ==
  \/ opts.top_k = 0
  \/ DOMAIN episodes = {}
  \/ \A id \in DOMAIN episodes : ~C21_PassesFilters(opts, episodes[id])
  \/ \A id \in DOMAIN episodes : f32_lt(episodes[id].reward, opts.min_reward)

\* C21: a query with an embedding of the store's dim never returns an error,
\* and returns the empty list when top_k = 0, when the store is empty, when
\* no stored episode passes the filters, and when min_reward is greater than
\* every stored reward.
C21_EmptyAtBoundary ==
  (call.op = "query" /\ Len(call.query_embedding) = Queried.dim) =>
    /\ QueryReturned
    /\ C21_Boundary(call.opts, Queried.episodes) => Returned = <<>>

C21_Witness ==
  /\ QueryReturned
  /\ is_some(mem)
  /\ call.opts.top_k = 2
  /\ Cardinality(StoredIds(mem[1])) = 2
  /\ \A id \in StoredIds(mem[1]) :
       /\ ~C21_PassesFilters(call.opts, mem[1].episodes[id])
       /\ ~f32_lt(mem[1].episodes[id].reward, call.opts.min_reward)
  /\ Returned = <<>>

\* C22: in an Exact AgentMemDB, of two stored episodes a and b that both
\* satisfy opts.matches, are at the same distance from the query, and have
\* a.timestamp > b.timestamp, b is in the result only if a is in it too,
\* before b; for every top_k and every number of equidistant episodes.
C22_RecentPreferred ==
  (QueryReturned /\ is_some(mem) /\ mem[1].index.kind = "exact") =>
    \A ia, ib \in StoredIds(mem[1]) :
      LET a == mem[1].episodes[ia]
          b == mem[1].episodes[ib]
      IN (/\ matches(call.opts, a) /\ matches(call.opts, b)
          /\ C9_Distance(a) = C9_Distance(b)
          /\ a.timestamp # None /\ b.timestamp # None
          /\ a.timestamp[1] > b.timestamp[1]
          /\ b \in Range(Returned))
           => \E i, j \in 1..Len(Returned) : i < j /\ Returned[i] = a /\ Returned[j] = b

\* C23: with the Exact backend, after successful store_episode calls with
\* distinct ids, a query with an embedding of the store's dim and top_k >=
\* |episodes| returns exactly the stored episodes that satisfy opts.matches.
C23_ObservesWrites ==
  (/\ call.op = "query" /\ is_some(mem) /\ mem[1].index.kind = "exact"
   /\ Len(call.query_embedding) = mem[1].dim
   /\ call.opts.top_k >= Cardinality(StoredIds(mem[1])))
    => /\ is_ok(mret)
       /\ Range(mret[2]) = {e \in Range(mem[1].episodes) : matches(call.opts, e)}

\* The oversampling factor the claim gives each store.
C24_Mult(opts, on_disk) ==
  IF on_disk
  THEN IF opts.tags_any # None \/ opts.time_after # None \/ opts.time_before # None
       THEN 4 ELSE 2
  ELSE IF \/ opts.tags_any # None \/ opts.tags_all # None \/ opts.task_id_prefix # None
          \/ opts.time_after # None \/ opts.time_before # None
          \/ opts.source # None \/ opts.user_id # None
       THEN 4 ELSE 2
\* x comes strictly before y in (distance ascending, timestamp descending).
C24_Before(x, y) ==
  \/ C9_Distance(x) < C9_Distance(y)
  \/ C9_Distance(x) = C9_Distance(y) /\ C9_Newer(x, y)
\* W is a set of the n nearest stored episodes (all of them if fewer).
C24_Window(W, episodes, n) ==
  /\ W \subseteq Range(episodes)
  /\ Cardinality(W) = (IF n < Cardinality(Range(episodes)) THEN n ELSE Cardinality(Range(episodes)))
  /\ \A w \in W : \A x \in Range(episodes) \ W : C9_Distance(w) <= C9_Distance(x)

\* C24: with the Exact backend the result of a query is the first top_k, in
\* (distance ascending, timestamp descending) order, of the episodes that
\* satisfy opts.matches among the top_k * mult nearest stored vectors, mult
\* being 4 with a filter set and 2 without (on disk 4 only with tags_any,
\* time_after or time_before, and the order that of the search); no episode
\* outside that window is returned.
C24_Composition ==
  (/\ call.op = "query" /\ Queried.index.kind = "exact"
   /\ Len(call.query_embedding) = Queried.dim)
    => /\ QueryReturned
       /\ \E W \in SUBSET Range(Queried.episodes) :
            LET hits == {e \in W : matches(call.opts, e)} IN
            /\ C24_Window(W, Queried.episodes,
                          call.opts.top_k * C24_Mult(call.opts, is_some(disk)))
            /\ Range(Returned) \subseteq hits
            /\ Len(Returned) = (IF call.opts.top_k < Cardinality(hits)
                                THEN call.opts.top_k ELSE Cardinality(hits))
            /\ \A i, j \in 1..Len(Returned) : Returned[i] = Returned[j] => i = j
            /\ is_some(mem) =>
                 /\ \A i, j \in 1..Len(Returned) : i < j => ~C24_Before(Returned[j], Returned[i])
                 /\ \A x \in hits \ Range(Returned) :
                      \A i \in 1..Len(Returned) : ~C24_Before(x, Returned[i])

\* A store holds the episodes of a list of JSON objects, keyed in list order.
C25_LoadedFrom(st, list) ==
  /\ DOMAIN st.key_to_uuid = 0..(Len(list) - 1)
  /\ \A i \in 1..Len(list) : st.key_to_uuid[i - 1] = from_str(list[i]).id
  /\ st.index.vectors = [i \in 1..Len(list) |-> from_str(list[i]).state_embedding]
  /\ DOMAIN st.episodes = {from_str(list[i]).id : i \in 1..Len(list)}
  /\ \A i \in 1..Len(list) : st.episodes[from_str(list[i]).id] = from_str(list[i])
\* The non-empty lines of the log.
C25_LogLines == SelectSeqBy(Lines(dir.log[1]), {l \in Range(Lines(dir.log[1])) : l # <<>>})
\* The four conditions of the checkpoint path.
C25_TakesCheckpoint ==
  /\ disk[1].use_checkpoint
  /\ dir.meta[1].index_type = "exact"
  /\ dir.checkpoint # None
  /\ dir.meta[1].checkpoint_line_count = Some(Len(C25_LogLines))

\* C25: an open of an existing directory loads the checkpoint exactly when
\* use_checkpoint is set, meta.index_type is "exact", exact_checkpoint.json
\* exists and meta.checkpoint_line_count is the number of non-empty lines of
\* the log; otherwise it replays the log, keys in log order.
C25_CheckpointOrReplay ==
  (call.op = "open" /\ is_some(disk)) =>
    IF C25_TakesCheckpoint
    THEN C25_LoadedFrom(disk[1], dir.checkpoint[1])
    ELSE C25_LoadedFrom(disk[1], C25_LogLines)

C25_Witness ==
  /\ call.op = "open"
  /\ is_some(disk)
  /\ C25_TakesCheckpoint
  /\ Len(dir.checkpoint[1]) = 2
  /\ at_close # None

\* C26: whenever open_with_options takes the checkpoint path, the state it
\* loads is the state a replay of the log would produce: the same episode
\* table, the same key -> id map, the same index vectors in the same key
\* order; in every state reached through open, store_episode, checkpoint, the
\* prunes, and a crash inside any of them.
C26_CheckpointIsReplay ==
  (call.op = "open" /\ is_some(disk) /\ C25_TakesCheckpoint)
    => LET meta == dir.meta[1]
           replayed == replay_log(dir.log[1], meta.dim, meta.max_elements, meta.index_type)
       IN /\ is_ok(replayed)
          /\ replayed[2].episodes = disk[1].episodes
          /\ replayed[2].key_to_uuid = disk[1].key_to_uuid
          /\ replayed[2].index.vectors = disk[1].index.vectors

\* C27: after a crash at any point during store_episode, part-way through
\* the write of the log line included, the next open of the directory with
\* its dimensionality succeeds, and its table holds every episode whose
\* store_episode had returned Ok before the crash.
C27_Step ==
  (/\ call.op = "crash" /\ call.in = "store_episode"
   /\ call'.op = "open" /\ call'.dim = dir.meta[1].dim)
    => /\ is_some(disk')
       /\ \A id \in DOMAIN call.keeps :
            id \in DOMAIN disk'[1].episodes /\ disk'[1].episodes[id] = call.keeps[id]

C27_StoresSurviveCrash == [][C27_Step]_vars

\* The episodes of the whole lines of the log, by id.
C28_LogTable ==
  LET lines == Lines(dir.log[1])
      whole == {i \in 1..Len(lines) : parses(lines[i])}
  IN [id \in {from_str(lines[i]).id : i \in whole} |->
        from_str(lines[CHOOSE i \in whole : from_str(lines[i]).id = id])]

\* C28: after a crash inside a prune, anywhere from the rebuild of the RAM
\* state to the removal of the checkpoint, the next open of the directory
\* with its dimensionality succeeds with |key -> id| = |episodes| =
\* index.len(), and its table is the set of episodes in the log.
C28_Step ==
  (/\ call.op = "crash" /\ call.in = "prune"
   /\ call'.op = "open" /\ call'.dim = dir.meta[1].dim)
    => /\ is_some(disk')
       /\ LET s == Sizes(disk'[1]) IN s[1] = s[2] /\ s[2] = s[3]
       /\ disk'[1].episodes = C28_LogTable'

C28_PruneCrashReplays == [][C28_Step]_vars

\* C29: a crash inside a prune loses no episode the prune keeps: after the
\* next successful open of the directory, every episode that satisfies the
\* keep rule of the prune is in the table.
C29_Step ==
  (/\ call.op = "crash" /\ call.in = "prune"
   /\ call'.op = "open" /\ is_some(disk'))
    => \A id \in DOMAIN call.keeps :
         id \in DOMAIN disk'[1].episodes /\ disk'[1].episodes[id] = call.keeps[id]

C29_PruneCrashKeeps == [][C29_Step]_vars

\* C30: when a prune returns an I/O error raised by its compaction (creating,
\* writing, syncing or reopening the log, or removing the checkpoint), the
\* table in RAM is the one from before the call and is still the set of
\* episodes in the log.
C30_FailedPruneLeavesTable ==
  (call.op = "prune" /\ ~is_ok(dret))
    => /\ disk[1].episodes = call.before
       /\ disk[1].episodes = C28_LogTable

\* C31: between compactions the log is append-only and ordered: every
\* successful store_episode extends it by exactly one line, the episode's,
\* and leaves the earlier lines as they were; and an open of an Exact store
\* that replays the log gives key i to the episode of the (i+1)-th
\* non-empty line.
C31_Step ==
  /\ (is_some(disk) /\ call'.op = "store_episode" /\ is_ok(dret'))
       => dir'.log[1] = Append(dir.log[1], to_string(call'.episode))
  /\ (/\ call'.op = "open" /\ is_some(disk') /\ disk'[1].index.kind = "exact"
      /\ ~C25_TakesCheckpoint')
       => C25_LoadedFrom(disk'[1], C25_LogLines')

C31_AppendOnly == [][C31_Step]_vars

\* The ids of the episodes a query returned, in order; an error or a panic
\* as it is.
C32_Ids(r) == IF is_ok(r) THEN Ok([i \in 1..Len(r[2]) |-> r[2][i].id]) ELSE r

\* C32: for an Exact disk store, after any crash-free sequence of
\* store_episode, checkpoint and prunes, every query returns the same
\* sequence of episode ids right before the store is dropped and right after
\* the directory is opened again, by replay or from the checkpoint.
C32_Step ==
  (call'.op = "close" /\ disk[1].index.kind = "exact")
    => \A opts \in {DiskOptionsExact(Dim), DiskOptionsExactWithCheckpoint(Dim)} :
         LET reopened == open_with_options(dir, opts).res IN
         /\ is_ok(reopened)
         /\ \A in \in QueryInputs :
              {C32_Ids(r) : r \in disk_query_similar_with_options(reopened[2], in[1], in[2])}
                = {C32_Ids(r) : r \in disk_query_similar_with_options(disk[1], in[1], in[2])}

C32_SameAfterReopen == [][C32_Step]_vars

\* C33: checkpoint returns Ok and leaves the log and the RAM state as they
\* were; on an HNSW store, or on one opened without use_checkpoint, it also
\* leaves exact_checkpoint.json and meta.json as they were; and when it
\* writes, checkpoint_line_count is all it changes in meta.json.
C33_Step ==
  (is_some(disk) /\ call'.op = "checkpoint")
    => /\ dret' = Ok("unit")
       /\ disk' = disk
       /\ dir'.log = dir.log
       /\ (disk[1].index.kind # "exact" \/ ~disk[1].use_checkpoint) => dir' = dir
       /\ [dir'.meta[1] EXCEPT !.checkpoint_line_count = None]
            = [dir.meta[1] EXCEPT !.checkpoint_line_count = None]

C33_CheckpointFrame == [][C33_Step]_vars

C33_Witness ==
  /\ call.op = "checkpoint"
  /\ disk[1].index.kind = "exact" /\ disk[1].use_checkpoint
  /\ dir.checkpoint # None /\ Len(dir.checkpoint[1]) = 2
  /\ dir.meta[1].checkpoint_line_count = Some(2)

\* The episodes checkpoint collects: those of the keys that lead to the table.
C34_Collected(st) ==
  {key \in DOMAIN st.key_to_uuid : st.key_to_uuid[key] \in DOMAIN st.episodes}

\* C34: checkpoint on an Exact store with use_checkpoint: if the number of
\* episodes collected in key order differs from the number of non-empty
\* lines of the log, it returns Ok and leaves exact_checkpoint.json and
\* meta.json as they were; otherwise the checkpoint it writes lists the
\* episodes in key order and meta.checkpoint_line_count is the log's line
\* count.
C34_Step ==
  (/\ is_some(disk) /\ call'.op = "checkpoint"
   /\ disk[1].index.kind = "exact" /\ disk[1].use_checkpoint)
    => LET n == Cardinality(C34_Collected(disk[1])) IN
       /\ dret' = Ok("unit")
       /\ IF n # Len(C25_LogLines)
          THEN dir'.checkpoint = dir.checkpoint /\ dir'.meta = dir.meta
          ELSE /\ dir'.checkpoint =
                    Some([i \in 1..n |-> to_string(disk[1].episodes[disk[1].key_to_uuid[i - 1]])])
               /\ dir'.meta[1].checkpoint_line_count = Some(Len(C25_LogLines))

C34_CountsAgree == [][C34_Step]_vars

C34_Witness ==
  /\ call.op = "checkpoint"
  /\ disk[1].index.kind = "exact" /\ disk[1].use_checkpoint
  /\ Cardinality(C34_Collected(disk[1])) = 1
  /\ Len(C25_LogLines) = 2
  /\ dir.checkpoint = None

\* C35: an open, with the directory's dimensionality, of a directory whose
\* log holds a non-empty line that does not parse as an Episode fails, and
\* if the first line that cannot be loaded is one whose embedding has
\* another length than meta.dim it fails with DimensionMismatch; no store is
\* returned, and the log, meta.json and the checkpoint file stay as they
\* were.
C35_Step ==
  (call'.op = "open" /\ call'.dim = dir.meta[1].dim /\ is_some(dir.log))
    => LET lines == C25_LogLines
           bad == {i \in 1..Len(lines) :
                     \/ ~parses(lines[i])
                     \/ Len(from_str(lines[i]).state_embedding) # dir.meta[1].dim}
       IN bad # {}
            => LET first == CHOOSE i \in bad : \A j \in bad : i <= j IN
               /\ disk' = None
               /\ ~is_ok(dret')
               /\ parses(lines[first])
                    => dret' = DimensionMismatch(dir.meta[1].dim,
                                                 Len(from_str(lines[first]).state_embedding))
               /\ dir' = dir

C35_BadLineFailsOpen == [][C35_Step]_vars

\* A prune rebuilt store a into store b: the HNSW capacity is max(kept
\* count, 20 000, 2 * dim), every survivor is re-inserted under a key of its
\* own, and the index holds its embedding at that key.
C36_Rebuilt(a, b) ==
  /\ b.index.kind = "hnsw"
       => b.index.max_elements
            = Max2(Max2(Cardinality(DOMAIN b.episodes), DEFAULT_MAX_ELEMENTS), 2 * a.dim)
  /\ OneToOne(b)
  /\ DOMAIN b.key_to_uuid = 0..(IndexLen(b.index) - 1)
  /\ \A k \in DOMAIN b.key_to_uuid :
       /\ b.episodes[b.key_to_uuid[k]] = a.episodes[b.key_to_uuid[k]]
       /\ b.index.vectors[k + 1] = b.episodes[b.key_to_uuid[k]].state_embedding

\* C36: every prune, of either store, that rebuilds the index rebuilds it as
\* the backend variant it was, an HNSW one with capacity max(kept count,
\* 20 000, 2 * dim), re-inserts every surviving episode and rebuilds the key
\* -> id map; and no store, query, prune or checkpoint changes a store's dim
\* or its backend variant.
C36_Step ==
  /\ (is_some(mem) /\ is_some(mem'))
       => /\ mem'[1].dim = mem[1].dim
          /\ mem'[1].index.kind = mem[1].index.kind
          /\ (call'.op \in PruneOps /\ (mret' > 0 \/ call'.op = "prune_older_than"))
               => C36_Rebuilt(mem[1], mem'[1])
  /\ (is_some(disk) /\ is_some(disk'))
       => /\ disk'[1].dim = disk[1].dim
          /\ disk'[1].index.kind = disk[1].index.kind
          /\ (call'.op \in PruneOps /\ dret' # Ok(0)) => C36_Rebuilt(disk[1], disk'[1])

C36_SameBackend == [][C36_Step]_vars

C36_Witness ==
  /\ call.op \in PruneOps
  /\ is_some(mem)
  /\ mret = 1
  /\ mem[1].index.kind = "hnsw"
  /\ Cardinality(DOMAIN mem[1].episodes) = 1
  /\ mem[1].index.max_elements = DEFAULT_MAX_ELEMENTS

\* C37: a prune never reduces the capacity of an HNSW store below the
\* max_elements it was constructed or opened with, so that a store holding
\* fewer episodes than that still has a free slot.  The disk store's
\* max_elements is the one in meta.json; the AgentMemDB keeps no record of
\* its own, so its capacity after the prune is compared with the one before.
C37_Step ==
  call'.op \in PruneOps
    => /\ (is_some(disk) /\ disk[1].index.kind = "hnsw")
            => disk'[1].index.max_elements >= dir.meta[1].max_elements
       /\ (is_some(mem) /\ mem[1].index.kind = "hnsw")
            => mem'[1].index.max_elements >= mem[1].index.max_elements

C37_CapacityKept == [][C37_Step]_vars

\* C38: with the HNSW backend, once the index holds max_elements vectors a
\* further store_episode of an episode of the store's dimensionality fails:
\* the caller gets an error, not Ok.
C38_Step ==
  (/\ call'.op = "store_episode"
   /\ Len(call'.episode.state_embedding) = Dim)
    => /\ (is_some(mem) /\ AtCapacity(mem[1].index))
            => mret'[1] \in {"DimensionMismatch", "HnswError", "NotFound"}
       /\ (is_some(disk) /\ AtCapacity(disk[1].index))
            => dret'[1] \in {"DimensionMismatch", "HnswError", "NotFound"}

C38_FullIndexRejects == [][C38_Step]_vars

\* The store of an id the one-to-one store st holds: Ok, the entry replaced, one key more.
C39_Duplicate(st, after, res) ==
  LET episode == call'.episode
      n == Cardinality(DOMAIN st.episodes) IN
  (/\ OneToOne(st)
   /\ episode.id \in DOMAIN st.episodes
   /\ Len(episode.state_embedding) = Dim)
    => /\ res = Ok("unit")
       /\ after.episodes = MapInsert(st.episodes, episode.id, episode)
       /\ Sizes(after) = <<n + 1, n, n + 1>>
       /\ ~OneToOne(after)

\* A store that does not correspond one to one stays so under store_episode, and
\* a prune that removes an episode, or any prune_older_than of AgentMemDB, rebuilds it one to one.
C39_UntilRebuild(st, after, removed, always) ==
  /\ (call'.op = "store_episode" /\ ~OneToOne(st)) => ~OneToOne(after)
  /\ (/\ call'.op \in {"prune_older_than", "prune_keep_newest"}
      /\ (removed > 0 \/ (always /\ call'.op = "prune_older_than")))
       => OneToOne(after)

C39_Step ==
  /\ (is_some(mem) /\ mem' # mem /\ call'.op = "store_episode")
       => C39_Duplicate(mem[1], mem'[1], mret')
  /\ (is_some(disk) /\ disk' # disk /\ call'.op = "store_episode")
       => C39_Duplicate(disk[1], disk'[1], dret')
  /\ (is_some(mem) /\ call'.op # "store_episode")
       => C39_UntilRebuild(mem[1], mem'[1], mret', TRUE)
  /\ (is_some(mem) /\ call'.op = "store_episode")
       => C39_UntilRebuild(mem[1], mem'[1], 0, TRUE)
  /\ (is_some(disk) /\ call'.op # "store_episode")
       => C39_UntilRebuild(disk[1], disk'[1], dret'[2], FALSE)
  /\ (is_some(disk) /\ call'.op = "store_episode")
       => C39_UntilRebuild(disk[1], disk'[1], 0, FALSE)

\* C39: store_episode does not deduplicate by id. Storing an episode whose id
\* is already in the table returns Ok, replaces the table entry and adds a new
\* index key, so that |key_to_uuid| = index.len() = |episodes| + 1; the map and
\* the table then do not correspond one to one until a prune rebuilds them.
C39_NoDeduplication == [][C39_Step]_vars

\* A store holds one episode under two keys after its id was stored twice.
C39_Witness ==
  /\ call.op = "store_episode"
  /\ \/ is_some(mem) /\ mret = Ok("unit") /\ Sizes(mem[1]) = <<2, 1, 2>>
     \/ is_some(disk) /\ dret = Ok("unit") /\ Sizes(disk[1]) = <<2, 1, 2>>

\* The index is of the kind and, for HNSW, of the capacity that index_type and max_elements name.
C40_IndexPer(index, index_type, max_elements) ==
  IF index_type = "exact" THEN index.kind = "exact"
  ELSE index.kind = "hnsw" /\ index.max_elements = max_elements

C40_Step ==
  (call'.op = "open" /\ disk = None /\ <<call', disk', dir'>> # <<call, disk, dir>>)
    => LET opts == call'.opts IN
       IF is_some(dir.meta)
       THEN /\ dir'.meta = dir.meta
            /\ is_some(disk')
                 => C40_IndexPer(disk'[1].index, dir.meta[1].index_type, dir.meta[1].max_elements)
       ELSE /\ dir'.meta = Some([dim |-> opts.dim,
                                 index_type |-> unwrap_or(opts.index_type, "hnsw"),
                                 max_elements |-> opts.max_elements,
                                 checkpoint_line_count |-> None])
            /\ is_some(disk')
            /\ disk'[1].episodes = EmptyMap
            /\ Sizes(disk'[1]) = <<0, 0, 0>>

\* C40: open_with_options on a directory that has a meta.json builds the index
\* of the index_type and max_elements recorded there, whatever opts.index_type
\* and opts.max_elements are, and leaves meta.json as it is; on a directory
\* without meta.json it writes meta.json from opts and returns an empty store.
C40_OpenPerMeta == [][C40_Step]_vars

\* A directory was reopened with options of another index type and capacity
\* than its meta.json records, and the store holds what was stored.
C40_Witness ==
  /\ call.op = "open"
  /\ is_some(disk)
  /\ is_some(dir.meta)
  /\ unwrap_or(call.opts.index_type, "hnsw") # dir.meta[1].index_type
  /\ call.opts.max_elements # dir.meta[1].max_elements
  /\ Sizes(disk[1])[2] > 0

====
